---- MODULE Spec2Model ----
(***************************************************************************)
(* Model of the Genaro committee consensus engine (package genaro):        *)
(* the snapshot manager, CalcDifficulty, Prepare, Seal, VerifySeal and     *)
(* VerifyHeaders.  Every specification below shares the same variables; a  *)
(* specification leaves the variables of the components it does not        *)
(* exercise at their initial value.                                        *)
(***************************************************************************)
EXTENDS Integers, Sequences, FiniteSets, TLC

VARIABLES
    recents,    \* Genaro.recents: epoch index -> cached snapshot (or NoSnap)
    db,         \* Genaro.db: snapshot store, key -> stored snapshot (or NoSnap)
    signer,     \* Genaro.signer: address of the signing key
    signFn,     \* Genaro.signFn: the signing callback (the accounts it signs for)
    vs,         \* the last VerifySeal call: header, clock, returned error
    cd,         \* the last CalcDifficulty call: snapshot, address, block number, result
    prep,       \* the last Prepare call: clock, parent, resulting header, error
    sl,         \* Seal calls in progress, one per sealing node
    clock,      \* wall clock of the sealing nodes, in ticks
    vh,         \* the VerifyHeaders call: goroutine, results channel, abort channel
    sn,         \* g.snapshot calls in progress and the snapshots written so far
    rk,         \* the last Rank call: candidates and the returned lists
    st,         \* the ledger (state.StateDB) the Finalize calls work on
    sg,         \* the last sign-and-recover round trip of a header
    lk,         \* g.lock, and the goroutines using the signer fields
    mint        \* a block on its way from Prepare to another node's VerifySeal

vars == <<recents, db, signer, signFn, vs, cd, prep, sl, clock, vh, sn, rk, st, sg, lk,
          mint>>

\* the variables of the snapshot, Rank, Finalize, signing-hash, lock and
\* block production models
rest == <<sn, rk, st, sg, lk, mint>>

----------------------------------------------------------------------------
(* Bounds of the model and configuration (params.GenaroConfig).            *)

\* config.Epoch: blocks per epoch
Epoch == 2
\* config.CommitteeMaxSize
CommitteeMaxSize == 3
\* config.ValidPeriod
ValidPeriod == 1
\* config.ElectionPeriod
ElectionPeriod == 1
\* highest block number a header handed to the engine carries
MaxNumber == 4
\* header timestamps range over parent.Time - 1 .. parent.Time + MaxDt
MaxDt == 3
\* header.Difficulty values range over 0 .. MaxDifficulty
MaxDifficulty == 3

\* clock ticks in wiggleTime (500 ms): the resolution of the sealing clock
TicksPerWiggle == 2
\* the block the sealing nodes work on
SealNumber == 1
\* latest tick at which a node may enter Seal
MaxStart == 1

\* longest batch handed to VerifyHeaders
MaxBatch == 3

\* Finalize calls per behaviour
MaxFinalize == 4

\* common.AddressLength: bytes per address in the embedded committee list
AddressLength == 20

epochPerYear == 12
coinRewardsRatio == 1250
storageRewardsRatio == 1250
ratioPerYear == 700
base == 10000

Addr == {"a1", "a2", "a3", "a4"}
\* an address recovered from a signature made over another hash: no account
Garbage == "a?"
\* common.Address{}: the signer of an engine before Authorize
ZeroAddr == "a0"
\* the nil SignerFn of an engine before Authorize
NoFn == [nilFn |-> TRUE]

NoSnap == [none |-> TRUE]
NoExtra == [nil |-> TRUE]
BadSig == [bad |-> TRUE]
NoSig == [empty |-> TRUE]

Range(s) == {s[i] : i \in 1..Len(s)}

Numbers == 0..MaxNumber

----------------------------------------------------------------------------
(* The chain the engine reads (consensus.ChainReader): block n is present   *)
(* for every n in Numbers, and carries a committee list when n is an epoch  *)
(* boundary.                                                                *)

GenesisRank == <<"a1", "a2", "a3">>
GenesisProportion == <<6000, 3000, 1000>>
ElectedRank == <<"a3", "a1">>
ElectedProportion == <<7000, 3000>>
\* timestamp of genesis; block n is stamped BaseTime + 2n
BaseTime == 10

ChainTime(n) == BaseTime + 2 * n

\* GetHeaderCommitteeRankList(chain.GetHeaderByNumber(n))
ChainRank(n) == IF n = 0 THEN GenesisRank ELSE ElectedRank
ChainProportion(n) == IF n = 0 THEN GenesisProportion ELSE ElectedProportion

----------------------------------------------------------------------------
(* Epoch arithmetic.                                                        *)

GetTurnOfCommiteeByBlockNumber(number) == number \div Epoch
GetFirstBlockNumberOfEpoch(e) == e * Epoch
GetLastBlockNumberOfEpoch(e) == (e + 1) * Epoch - 1

Epochs == 0..GetTurnOfCommiteeByBlockNumber(MaxNumber)

\* every epoch of the chain, up to the last block a Finalize call works on
ChainEpochs == 0..GetTurnOfCommiteeByBlockNumber(epochPerYear * Epoch + MaxFinalize)

----------------------------------------------------------------------------
(* CommitteeSnapshot.                                                       *)

IndexOf(rank, addr) ==
    IF addr \in Range(rank)
    THEN CHOOSE i \in 1..Len(rank) :
             rank[i] = addr /\ \A j \in 1..(i - 1) : rank[j] # addr
    ELSE 0

newSnapshot(number, epochNumber, committeeRank, proportion) ==
    [WriteBlockNumber |-> number,
     EpochNumber      |-> epochNumber,
     CommitteeRank    |-> committeeRank,
     Committee        |-> [a \in Range(committeeRank) |->
                              proportion[IndexOf(committeeRank, a)]],
     CommitteeSize    |-> Len(committeeRank)]

\* snap.getCurrentRankIndex(addr): 0-based index in the rank list, -1 if absent
getCurrentRankIndex(snap, addr) == IndexOf(snap.CommitteeRank, addr) - 1

\* snap.inturn(number, addr): round-robin over the rank list
inturn(snap, number, addr) ==
    /\ addr \in Range(snap.CommitteeRank)
    /\ getCurrentRankIndex(snap, addr) = number % snap.CommitteeSize

----------------------------------------------------------------------------
(* CalcDifficulty (the package function).                                   *)

CalcDifficulty_Shifted(snap, addr, blockNumber) ==
    LET index == getCurrentRankIndex(snap, addr) IN
    IF index < 0 THEN 0 ELSE snap.CommitteeSize - index - 1

CalcDifficulty(snap, addr, blockNumber) ==
    LET index == getCurrentRankIndex(snap, addr) IN
    IF index < 0 THEN 0 ELSE snap.CommitteeSize - index

----------------------------------------------------------------------------
(* Genaro.snapshot: cache, genesis bootstrap, historical reconstruction,    *)
(* then cache insertion and write-through of a newly created snapshot.      *)
(* storeOk is the outcome of snap.store(g.db).  The result is the returned  *)
(* snapshot and error with the cache and the store as the call leaves them. *)

snapshot(rec, store, epollNumber, storeOk) ==
    LET hit == rec[epollNumber] # NoSnap
        genesis == epollNumber < ValidPeriod + ElectionPeriod
        endBlock == GetLastBlockNumberOfEpoch(epollNumber - ValidPeriod - ElectionPeriod)
        snap == IF hit THEN rec[epollNumber]
                ELSE IF genesis
                THEN newSnapshot(0, 0, ChainRank(0), ChainProportion(0))
                ELSE newSnapshot(endBlock + 1,
                                 epollNumber - ValidPeriod - ElectionPeriod,
                                 ChainRank(endBlock + 1), ChainProportion(endBlock + 1))
        isCreateNew == ~hit
        rec2 == [rec EXCEPT ![epollNumber] = snap]
    IN  IF isCreateNew /\ ~storeOk
        THEN [snap |-> NoSnap, err |-> "errStore", recents |-> rec2, db |-> store]
        ELSE [snap |-> snap, err |-> "nil", recents |-> rec2,
              db |-> IF isCreateNew
                     THEN [store EXCEPT ![snap.EpochNumber] = snap]
                     ELSE store]

----------------------------------------------------------------------------
(* Header extension payload and the signature codec.                        *)
(* A header is [Number, Time, Difficulty, ParentKnown, Coinbase, Extra];    *)
(* Extra is                                                                 *)
(* NoExtra (nothing decodable) or [CommitteeRank, Signature], CommitteeRank *)
(* being the byte length of the embedded list.  A signature is BadSig       *)
(* (recovery fails), NoSig (cleared) or [key, digest].  Timestamps and      *)
(* difficulties are naturals small enough that no uint64 conversion wraps.  *)

UnmarshalToExtra(header) == header.Extra

ResetHeaderSignature(header) ==
    IF header.Extra = NoExtra THEN header
    ELSE [header EXCEPT !.Extra.Signature = NoSig]

SetHeaderSignature(header, sig) ==
    IF header.Extra = NoExtra
    THEN [header EXCEPT !.Extra = [CommitteeRank |-> 0, Signature |-> sig]]
    ELSE [header EXCEPT !.Extra.Signature = sig]

\* sigHash: the hash of the listed header fields, Extra included as it stands
sigHash(header) ==
    [Coinbase |-> header.Coinbase, Difficulty |-> header.Difficulty,
     Number |-> header.Number, Time |-> header.Time,
     ParentKnown |-> header.ParentKnown, Extra |-> header.Extra]

\* crypto.Ecrecover followed by the address derivation
RecoverAddress(hash, signature) ==
    IF signature = BadSig \/ signature = NoSig THEN [err |-> "errRecover", signer |-> Garbage]
    ELSE IF signature.digest = hash THEN [err |-> "nil", signer |-> signature.key]
    ELSE [err |-> "nil", signer |-> Garbage]

ecrecover(header) ==
    LET extraData == UnmarshalToExtra(header) IN
    IF extraData = NoExtra THEN [err |-> "errEmptyExtra", signer |-> Garbage]
    ELSE RecoverAddress(sigHash(ResetHeaderSignature(header)), extraData.Signature)

----------------------------------------------------------------------------
(* Genaro.VerifySeal.                                                       *)

parentTime(header) == ChainTime(header.Number - 1)

\* the epoch-point check: the embedded committee list of an epoch block
CheckEpochPoint(header) ==
    IF header.Number % Epoch = 0
    THEN LET extraData == UnmarshalToExtra(header) IN
         IF extraData = NoExtra THEN "panic"   \* nil pointer dereference
         ELSE LET committeeSize == extraData.CommitteeRank \div AddressLength IN
              IF committeeSize = 0 \/ committeeSize > CommitteeMaxSize
              THEN "errInvalidEpochBlock" ELSE "nil"
    ELSE "nil"

\* the membership check on the recovered signer
CheckSigner_Any(snap, addr) == "nil"

CheckSigner(snap, addr) ==
    IF addr \in DOMAIN snap.Committee THEN "nil" ELSE "errUnauthorized"

\* the timestamp checks against the parent, and the out-of-turn delay
CheckDelay(snap, header, addr) ==
    IF ~header.ParentKnown THEN "ErrUnknownAncestor"
    ELSE IF header.Time < parentTime(header) THEN "errUnknownBlock"
    ELSE IF ~inturn(snap, header.Number, addr)
            /\ parentTime(header) + header.Difficulty > header.Time
    THEN "errInvalidDifficulty"
    ELSE "nil"

\* whether the call gets as far as g.snapshot
ReachesSnapshot(header, now) ==
    /\ header.Number # 0
    /\ header.Time <= now
    /\ CheckEpochPoint(header) = "nil"

\* the error VerifySeal returns ("nil": the header is accepted; "panic": the
\* call aborts); sres is the result of its g.snapshot call
VerifySeal(header, now, sres) ==
    IF header.Number = 0 THEN "errUnknownBlock"
    ELSE IF header.Time > now THEN "ErrFutureBlock"
    ELSE IF CheckEpochPoint(header) # "nil" THEN CheckEpochPoint(header)
    ELSE IF sres.err # "nil" THEN sres.err
    ELSE LET rec == ecrecover(header) IN
         IF rec.err # "nil" THEN rec.err
         ELSE IF CheckSigner(sres.snap, rec.signer) # "nil"
         THEN CheckSigner(sres.snap, rec.signer)
         ELSE CheckDelay(sres.snap, header, rec.signer)

----------------------------------------------------------------------------
(* Headers handed to VerifySeal.                                            *)

ExtraSizes == {0, AddressLength - 1, AddressLength,
               CommitteeMaxSize * AddressLength,
               (CommitteeMaxSize + 1) * AddressLength}

Unsigned(n, dt, d, pk, x) ==
    [Number |-> n, Time |-> ChainTime(n - 1) + dt, Difficulty |-> d,
     ParentKnown |-> pk, Coinbase |-> ZeroAddr, Extra |-> x]

\* signatures a header may carry: unrecoverable, made by any key over the
\* header's own signing hash, or made by a1 over another header's
Signatures(h) ==
    {BadSig}
    \cup {[key |-> k, digest |-> sigHash(ResetHeaderSignature(h))] : k \in Addr}
    \cup {[key |-> "a1", digest |-> sigHash(ResetHeaderSignature([h EXCEPT !.Time = @ + 1]))]}

HeadersOf(n, dt, d, pk) ==
    {Unsigned(n, dt, d, pk, NoExtra)}
    \cup UNION {{SetHeaderSignature(Unsigned(n, dt, d, pk, [CommitteeRank |-> c, Signature |-> NoSig]), s) :
                    s \in Signatures(Unsigned(n, dt, d, pk, [CommitteeRank |-> c, Signature |-> NoSig]))} :
                c \in ExtraSizes}

Clocks(header) == {parentTime(header) + 1, parentTime(header) + MaxDt}

Idle == [op |-> "idle"]

EmptyCache == [e \in ChainEpochs |-> NoSnap]
\* snap.store keys a snapshot by its own epoch number
StoreKeys == ChainEpochs
EmptyStore == [k \in StoreKeys |-> NoSnap]

\* the components a specification does not exercise
IdleRest ==
    sn = Idle /\ rk = Idle /\ st = Idle /\ sg = Idle /\ lk = Idle /\ mint = Idle

\* g.CalcDifficulty(chain, time, parent), used here for its snapshot lookup
EngineCalcDifficulty(p) ==
    /\ vs = Idle
    /\ \E storeOk \in BOOLEAN :
          LET sres == snapshot(recents, db, GetTurnOfCommiteeByBlockNumber(p + 1), storeOk) IN
          /\ recents' = sres.recents
          /\ db' = sres.db
    /\ UNCHANGED <<rest, signer, signFn, vs, cd, prep, sl, clock, vh>>

VerifySealCall(n, dt, d, pk) ==
    /\ vs = Idle
    /\ \E header \in HeadersOf(n, dt, d, pk) :
       \E now \in Clocks(header) :
       \E storeOk \in BOOLEAN :
          LET sres == snapshot(recents, db, GetTurnOfCommiteeByBlockNumber(n), storeOk) IN
          /\ vs' = [op |-> "VerifySeal", header |-> header, now |-> now,
                    ret |-> VerifySeal(header, now, sres),
                    looked |-> ReachesSnapshot(header, now),
                    snap |-> IF ReachesSnapshot(header, now) THEN sres.snap ELSE NoSnap]
          /\ recents' = IF ReachesSnapshot(header, now) THEN sres.recents ELSE recents
          /\ db' = IF ReachesSnapshot(header, now) THEN sres.db ELSE db
    /\ UNCHANGED <<rest, signer, signFn, cd, prep, sl, clock, vh>>

InitVerify ==
    /\ recents = EmptyCache
    /\ db = EmptyStore
    /\ signer = ZeroAddr
    /\ signFn = NoFn
    /\ vs = Idle
    /\ cd = Idle
    /\ prep = Idle
    /\ sl = Idle
    /\ clock = 0
    /\ vh = Idle
    /\ IdleRest

NextVerify ==
    \/ \E p \in 0..(MaxNumber - 1) : EngineCalcDifficulty(p)
    \/ \E n \in Numbers, dt \in (-1)..MaxDt, d \in 0..MaxDifficulty, pk \in BOOLEAN :
          VerifySealCall(n, dt, d, pk)

SpecVerify == InitVerify /\ [][NextVerify]_vars

----------------------------------------------------------------------------
(* Claims about VerifySeal, checked under SpecVerify.                       *)

\* the snapshot governing block n: what g.snapshot derives from the chain
GoverningSnapshot(n) ==
    snapshot(EmptyCache, EmptyStore, GetTurnOfCommiteeByBlockNumber(n), TRUE).snap

Verified == vs.op = "VerifySeal"

\* the preconditions of C1: block number > 0, timestamp not in the future,
\* a valid embedded list on an epoch boundary, a recoverable signature
C1_Pre ==
    /\ Verified
    /\ vs.header.Number > 0
    /\ vs.header.Time <= vs.now
    /\ CheckEpochPoint(vs.header) = "nil"
    /\ ecrecover(vs.header).err = "nil"
    /\ ecrecover(vs.header).signer \notin DOMAIN GoverningSnapshot(vs.header.Number).Committee

\* C1 as stated: under its preconditions, a header whose recovered signer is
\* not in the governing snapshot makes VerifySeal return Unauthorized.
C1_Original == C1_Pre => vs.ret = "errUnauthorized"

\* C1 amended: such a header is never accepted, and VerifySeal returns
\* Unauthorized whenever its snapshot lookup returned a snapshot (it returns
\* the store's error when a newly derived snapshot could not be written).
C1_Unauthorized ==
    C1_Pre => /\ vs.ret # "nil"
              /\ vs.snap # NoSnap => vs.ret = "errUnauthorized"
              /\ vs.snap = NoSnap => vs.ret = "errStore"

\* C1 witness: an epoch-boundary header signed by a non-member, which would
\* pass the later parent and delay checks, is answered with Unauthorized.
C1_Witness ==
    /\ C1_Pre
    /\ vs.ret = "errUnauthorized"
    /\ vs.header.Number % Epoch = 0
    /\ vs.header.ParentKnown
    /\ vs.header.Time >= parentTime(vs.header) + vs.header.Difficulty

\* C2: a header whose signer is a committee member but not in-turn is accepted
\* only if header.time >= parent.time + d, d = committeeSize - rankIndex being
\* the signer's difficulty under the governing snapshot.
C2_OutOfTurnDelay ==
    (/\ Verified
     /\ vs.ret = "nil"
     /\ ~inturn(vs.snap, vs.header.Number, ecrecover(vs.header).signer))
    => vs.header.Time >= parentTime(vs.header)
                         + CalcDifficulty(vs.snap, ecrecover(vs.header).signer,
                                          vs.header.Number)

\* C5: an epoch-boundary header (number > 0, timestamp not in the future) whose
\* embedded committee list is empty, absent or longer than CommitteeMaxSize
\* makes VerifySeal return InvalidEpochBlock.
C5_InvalidEpochBlock ==
    (/\ Verified
     /\ vs.header.Number > 0
     /\ vs.header.Number % Epoch = 0
     /\ vs.header.Time <= vs.now
     /\ \/ vs.header.Extra = NoExtra
        \/ vs.header.Extra.CommitteeRank \div AddressLength = 0
        \/ vs.header.Extra.CommitteeRank \div AddressLength > CommitteeMaxSize)
    => vs.ret = "errInvalidEpochBlock"

\* C6: VerifySeal returns an error for every header whose timestamp is smaller
\* than its parent's.
C6_StaleTimestamp ==
    (/\ Verified
     /\ vs.header.Number > 0
     /\ vs.header.ParentKnown
     /\ vs.header.Time < parentTime(vs.header))
    => vs.ret \notin {"nil", "panic"}

----------------------------------------------------------------------------
(* CalcDifficulty applied to arbitrary snapshots (SpecCalc).                *)

\* rank lists of distinct addresses, up to CommitteeMaxSize members
RankLists ==
    UNION {{r \in [1..k -> Addr] : \A i, j \in 1..k : i # j => r[i] # r[j]} :
           k \in 0..CommitteeMaxSize}

SnapshotOf(rank) == newSnapshot(0, 0, rank, [i \in 1..Len(rank) |-> 10000 \div Len(rank)])

CalcDifficultyCall(rank, addr, blockNumber) ==
    /\ cd = Idle
    /\ cd' = [op |-> "CalcDifficulty", snap |-> SnapshotOf(rank), addr |-> addr,
              blockNumber |-> blockNumber,
              result |-> CalcDifficulty(SnapshotOf(rank), addr, blockNumber)]
    /\ UNCHANGED <<rest, recents, db, signer, signFn, vs, prep, sl, clock, vh>>

InitCalc == InitVerify

NextCalc ==
    \E rank \in RankLists, addr \in Addr \cup {ZeroAddr}, blockNumber \in Numbers :
        CalcDifficultyCall(rank, addr, blockNumber)

SpecCalc == InitCalc /\ [][NextCalc]_vars

\* C3: CalcDifficulty returns 0 for an address outside the rank list and
\* committeeSize - rankIndex for the address at rankIndex; so difficulty is
\* non-increasing in rank index, rank 0 gets the highest value, a 3-member
\* committee yields 3, 2, 1, and the block number does not matter.
C3_Difficulty ==
    cd.op = "CalcDifficulty" =>
        LET rank == cd.snap.CommitteeRank
            D(a) == CalcDifficulty(cd.snap, a, cd.blockNumber)
        IN  /\ cd.addr \notin Range(rank) => cd.result = 0
            /\ \A i \in 1..Len(rank) : rank[i] = cd.addr => cd.result = Len(rank) - (i - 1)
            /\ \A i, j \in 1..Len(rank) : i <= j => D(rank[i]) >= D(rank[j])
            /\ \A i \in 1..Len(rank) : D(rank[1]) >= D(rank[i]) /\ D(rank[i]) > 0
            /\ Len(rank) = 3 => <<D(rank[1]), D(rank[2]), D(rank[3])>> = <<3, 2, 1>>
            /\ \A n \in Numbers : CalcDifficulty(cd.snap, cd.addr, n) = cd.result

\* C3 witness: the member at rank index 1 of a 3-member committee gets 2.
C3_Witness ==
    /\ cd.op = "CalcDifficulty"
    /\ Len(cd.snap.CommitteeRank) = 3
    /\ cd.addr = cd.snap.CommitteeRank[2]
    /\ cd.result = 2

----------------------------------------------------------------------------
(* Authorize and Prepare (SpecPrepare).                                     *)

\* a SignerFn backed by a wallet holding the given accounts
WalletOf(accounts) == [accounts |-> accounts]

Authorize(a) ==
    /\ signer' = a
    /\ signFn' = WalletOf({a})
    /\ UNCHANGED <<rest, recents, db, vs, cd, prep, sl, clock, vh>>

\* the header the block producer hands to Prepare
BlankHeader(n, pk) ==
    [Number |-> n, Time |-> 0, Difficulty |-> 0, ParentKnown |-> pk,
     Coinbase |-> ZeroAddr, Extra |-> [CommitteeRank |-> 0, Signature |-> NoSig]]

\* the timestamp Prepare gives a header whose parent is stamped pt
PrepareTime(now, pt) == IF now < pt THEN pt + 1 ELSE now

\* Prepare: the returned error and the header as the call leaves it
Prepare(header, sgn, now, sres) ==
    LET h1 == [header EXCEPT !.Coinbase = sgn]
        h2 == [h1 EXCEPT !.Difficulty = CalcDifficulty(sres.snap, sgn, header.Number)]
    IN  IF sres.err # "nil" THEN [ret |-> sres.err, header |-> h1]
        ELSE IF ~header.ParentKnown THEN [ret |-> "ErrUnknownAncestor", header |-> h2]
        ELSE [ret |-> "nil",
              header |-> [h2 EXCEPT !.Time = PrepareTime(now, parentTime(header))]]

PrepareCall(n, pk, dnow) ==
    \E storeOk \in BOOLEAN :
        LET sres == snapshot(recents, db, GetTurnOfCommiteeByBlockNumber(n), storeOk)
            now == ChainTime(n - 1) + dnow
            out == Prepare(BlankHeader(n, pk), signer, now, sres)
        IN  /\ prep' = [op |-> "Prepare", now |-> now, ret |-> out.ret,
                        header |-> out.header]
            /\ recents' = sres.recents
            /\ db' = sres.db
            /\ UNCHANGED <<rest, signer, signFn, vs, cd, sl, clock, vh>>

InitPrepare == InitVerify

NextPrepare ==
    \/ \E a \in Addr : Authorize(a)
    \/ \E n \in Numbers, pk \in BOOLEAN, dnow \in (-1)..1 :
          (n = 0 => ~pk) /\ PrepareCall(n, pk, dnow)

SpecPrepare == InitPrepare /\ [][NextPrepare]_vars

\* C4: whenever Prepare returns without error, header.time is strictly greater
\* than parent.time, whatever the local clock reads.
C4_StrictlyIncreasing ==
    (prep.op = "Prepare" /\ prep.ret = "nil")
    => prep.header.Time > parentTime(prep.header)

----------------------------------------------------------------------------
(* Seal (SpecSeal): every sealing node runs its own engine, authorized for  *)
(* its own address, on block SealNumber; the nodes share the wall clock.    *)

wiggleTime == TicksPerWiggle
Second == 2 * wiggleTime

\* the nodes sealing the block: the domain of sl
Sealers == DOMAIN sl

\* reverseDifficult * time.Second + jitter
SealDelay_ByDifficulty(snap, header, jitter) ==
    header.Difficulty * Second + jitter

SealDelay(snap, header, jitter) ==
    LET reverseDifficult == snap.CommitteeSize - header.Difficulty + 1
    IN  reverseDifficult * Second + jitter

\* the cases of Seal's select that can proceed
SelectReady_NoWait(stopClosed, elapsed, delay) ==
    (IF stopClosed THEN {"stop"} ELSE {}) \cup {"timer"}

SelectReady(stopClosed, elapsed, delay) ==
    (IF stopClosed THEN {"stop"} ELSE {})
    \cup (IF elapsed >= delay THEN {"timer"} ELSE {})

\* signFn(accounts.Account{Address: addr}, hash)
Sign(fn, addr, hash) ==
    IF addr \in fn.accounts
    THEN [err |-> "nil", sig |-> [key |-> addr, digest |-> hash]]
    ELSE [err |-> "errSign", sig |-> NoSig]

NoBlock == [nilBlock |-> TRUE]

FreshSealer(a) ==
    [phase |-> "new", signer |-> a, signFn |-> WalletOf({a}),
     recents |-> EmptyCache, db |-> EmptyStore,
     header |-> BlankHeader(SealNumber, TRUE),
     start |-> 0, delay |-> 0, stop |-> FALSE, stopAt |-> 0,
     called |-> FALSE, calledAt |-> 0, block |-> NoBlock, err |-> "nil"]

\* the node prepares the header it is about to seal
SealPrepare(a) ==
    /\ sl[a].phase = "new"
    /\ \E storeOk \in BOOLEAN :
          LET sres == snapshot(sl[a].recents, sl[a].db,
                               GetTurnOfCommiteeByBlockNumber(SealNumber), storeOk)
              out == Prepare(sl[a].header, sl[a].signer, ChainTime(SealNumber), sres)
          IN  sl' = [sl EXCEPT ![a].recents = sres.recents, ![a].db = sres.db,
                               ![a].header = out.header,
                               ![a].phase = IF out.ret = "nil" THEN "prepared" ELSE "new"]
    /\ UNCHANGED <<rest, recents, db, signer, signFn, vs, cd, prep, clock, vh>>

\* Seal up to its select: genesis check, credentials, snapshot, delay
SealBegin(a) ==
    /\ sl[a].phase = "prepared"
    /\ clock <= MaxStart
    /\ \E storeOk \in BOOLEAN, jitter \in 0..(wiggleTime - 1) :
          LET sres == snapshot(sl[a].recents, sl[a].db,
                               GetTurnOfCommiteeByBlockNumber(sl[a].header.Number), storeOk)
          IN  sl' = [sl EXCEPT
                  ![a].recents = sres.recents, ![a].db = sres.db,
                  ![a].start = clock,
                  ![a].phase = IF sl[a].header.Number = 0 \/ sres.err # "nil"
                               THEN "done" ELSE "select",
                  ![a].err = IF sl[a].header.Number = 0 THEN "errUnknownBlock"
                             ELSE sres.err,
                  ![a].delay = IF sres.err = "nil"
                               THEN SealDelay(sres.snap, sl[a].header, jitter) ELSE 0]
    /\ UNCHANGED <<rest, recents, db, signer, signFn, vs, cd, prep, clock, vh>>

\* the caller closes the stop channel of the node's Seal call
Stop(a) ==
    /\ sl[a].phase \in {"prepared", "select"}
    /\ ~sl[a].stop
    /\ sl' = [sl EXCEPT ![a].stop = TRUE, ![a].stopAt = clock]
    /\ UNCHANGED <<rest, recents, db, signer, signFn, vs, cd, prep, clock, vh>>

\* the select and what follows it: return on stop, or sign and return
SealSelect(a) ==
    /\ sl[a].phase = "select"
    /\ \E case \in SelectReady(sl[a].stop, clock - sl[a].start, sl[a].delay) :
          IF case = "stop"
          THEN sl' = [sl EXCEPT ![a].phase = "done", ![a].block = NoBlock,
                                ![a].err = "nil"]
          ELSE LET out == Sign(sl[a].signFn, sl[a].signer, sigHash(sl[a].header))
                   sealed == SetHeaderSignature(sl[a].header, out.sig)
               IN  sl' = [sl EXCEPT
                       ![a].phase = "done", ![a].called = TRUE, ![a].calledAt = clock,
                       ![a].err = out.err,
                       ![a].header = IF out.err = "nil" THEN sealed ELSE @,
                       ![a].block = IF out.err = "nil" THEN [header |-> sealed]
                                    ELSE NoBlock]
    /\ UNCHANGED <<rest, recents, db, signer, signFn, vs, cd, prep, clock, vh>>

\* latest tick of the sealing clock
MaxClock == MaxStart + (Len(GenesisRank) + 1) * Second + wiggleTime

\* time passes while no waiting Seal call has a case of its select ready
Tick ==
    /\ clock < MaxClock
    /\ \E a \in Sealers : sl[a].phase # "done"
    /\ \A a \in Sealers :
          sl[a].phase = "select" =>
              SelectReady(sl[a].stop, clock - sl[a].start, sl[a].delay) = {}
    /\ clock' = clock + 1
    /\ UNCHANGED <<rest, recents, db, signer, signFn, vs, cd, prep, sl, vh>>

InitSeal ==
    /\ recents = EmptyCache
    /\ db = EmptyStore
    /\ signer = ZeroAddr
    /\ signFn = NoFn
    /\ vs = Idle
    /\ cd = Idle
    /\ prep = Idle
    /\ \E p, q \in Addr : p # q /\ sl = [a \in {p, q} |-> FreshSealer(a)]
    /\ clock = 0
    /\ vh = Idle
    /\ IdleRest

NextSeal ==
    \/ \E a \in Sealers : SealPrepare(a)
    \/ \E a \in Sealers : SealBegin(a)
    \/ \E a \in Sealers : Stop(a)
    \/ \E a \in Sealers : SealSelect(a)
    \/ Tick

SpecSeal == InitSeal /\ [][NextSeal]_vars

\* rank index of a sealing node in the snapshot governing the sealed block
SealRank(a) == getCurrentRankIndex(GoverningSnapshot(SealNumber), a)

\* C7: Seal invokes the signing callback reverseDifficulty seconds plus a
\* jitter in [0, 500ms) after it started, reverseDifficulty being
\* committeeSize - difficulty + 1, which is rankIndex + 1 for a member; of
\* two members that started at the same instant the lower-ranked index signs
\* first.
C7_SealDelay ==
    /\ \A a \in Sealers :
          sl[a].called =>
              LET reverseDifficulty == GoverningSnapshot(SealNumber).CommitteeSize
                                           - sl[a].header.Difficulty + 1
                  waited == sl[a].calledAt - sl[a].start
              IN  /\ SealRank(a) >= 0 => reverseDifficulty = SealRank(a) + 1
                  /\ waited >= reverseDifficulty * Second
                  /\ waited < reverseDifficulty * Second + wiggleTime
    /\ \A a, b \in Sealers :
          (/\ sl[a].called /\ sl[b].called
           /\ sl[a].start = sl[b].start
           /\ SealRank(a) >= 0 /\ SealRank(a) < SealRank(b))
          => sl[a].calledAt < sl[b].calledAt

\* C7 witness: the members at rank 0 and 1 start together; rank 0 signs after
\* one second and the largest jitter, rank 1 after two seconds and no jitter.
C7_Witness ==
    \E a, b \in Sealers :
        /\ sl[a].called /\ sl[b].called
        /\ sl[a].start = sl[b].start
        /\ SealRank(a) = 0 /\ SealRank(b) = 1
        /\ sl[a].calledAt - sl[a].start = Second + wiggleTime - 1
        /\ sl[b].calledAt - sl[b].start = 2 * Second

\* C8: when the stop signal fires before the seal delay has elapsed, Seal
\* returns no block and no error, never invokes the signing callback and
\* never writes a signature into the header.
C8_Cancel ==
    \A a \in Sealers :
        (/\ sl[a].stop
         /\ sl[a].delay > 0       \* the call has reached its wait
         /\ sl[a].stopAt < sl[a].start + sl[a].delay)
        => /\ ~sl[a].called
           /\ sl[a].header.Extra.Signature = NoSig
           /\ sl[a].phase = "done" => sl[a].block = NoBlock /\ sl[a].err = "nil"

\* C8 witness: a stop signal that fires during the wait ends Seal with no
\* block and no error.
C8_Witness ==
    \E a \in Sealers :
        /\ sl[a].stop
        /\ sl[a].stopAt > sl[a].start
        /\ sl[a].stopAt < sl[a].start + sl[a].delay
        /\ sl[a].phase = "done"
        /\ sl[a].block = NoBlock /\ sl[a].err = "nil"

----------------------------------------------------------------------------
(* VerifyHeaders (SpecHeaders): the verifying goroutine, the caller's abort *)
(* channel and the consumer of the results channel.                         *)

Signed(h, k) ==
    SetHeaderSignature(h, [key |-> k, digest |-> sigHash(ResetHeaderSignature(h))])

PlainExtra == [CommitteeRank |-> 0, Signature |-> NoSig]
ListExtra == [CommitteeRank |-> AddressLength, Signature |-> NoSig]

\* the headers batches are made of: a member's, a non-member's, an epoch block
\* with a committee list, an epoch block whose payload does not decode
BatchHeaders ==
    {Signed(Unsigned(1, 1, 0, TRUE, PlainExtra), "a2"),
     Signed(Unsigned(1, 1, 0, TRUE, PlainExtra), "a4"),
     Signed(Unsigned(Epoch, 1, 0, TRUE, ListExtra), "a1"),
     Unsigned(Epoch, 1, 0, TRUE, NoExtra)}

Batches == UNION {[1..k -> BatchHeaders] : k \in 1..MaxBatch}

\* the cases of the goroutine's select that can proceed: the results channel
\* has room for every header, the abort channel is ready once closed
VerifyHeadersReady(abortClosed, buffered, capacity) ==
    (IF abortClosed THEN {"abort"} ELSE {})
    \cup (IF buffered < capacity THEN {"send"} ELSE {})

\* the goroutine verifies the next header
VerifyHeadersVerify ==
    /\ vh.pc = "verify"
    /\ \E storeOk \in BOOLEAN :
          LET header == vh.headers[vh.i]
              now == parentTime(header) + MaxDt
              sres == snapshot(recents, db,
                               GetTurnOfCommiteeByBlockNumber(header.Number), storeOk)
              err == VerifySeal(header, now, sres)
          IN  /\ vh' = [vh EXCEPT !.err = err,
                                  !.verdicts = Append(@, err),
                                  !.pc = IF err = "panic" THEN "crashed" ELSE "select"]
              /\ recents' = IF ReachesSnapshot(header, now) THEN sres.recents ELSE recents
              /\ db' = IF ReachesSnapshot(header, now) THEN sres.db ELSE db
    /\ UNCHANGED <<rest, signer, signFn, vs, cd, prep, sl, clock>>

\* the goroutine's select: return on abort, or send the result and loop
VerifyHeadersSelect ==
    /\ vh.pc = "select"
    /\ \E case \in VerifyHeadersReady(vh.abort, Len(vh.results), Len(vh.headers)) :
          IF case = "abort"
          THEN vh' = [vh EXCEPT !.pc = "done"]
          ELSE vh' = [vh EXCEPT !.results = Append(@, vh.err),
                                !.late = IF vh.abort THEN @ + 1 ELSE @,
                                !.i = @ + 1,
                                !.pc = IF vh.i = Len(vh.headers) THEN "done" ELSE "verify"]
    /\ UNCHANGED <<rest, recents, db, signer, signFn, vs, cd, prep, sl, clock>>

\* the caller signals abort by closing the abort channel
VerifyHeadersAbort ==
    /\ vh.op = "VerifyHeaders"
    /\ ~vh.abort
    /\ vh' = [vh EXCEPT !.abort = TRUE]
    /\ UNCHANGED <<rest, recents, db, signer, signFn, vs, cd, prep, sl, clock>>

\* the consumer receives the next result from the results channel
VerifyHeadersReceive ==
    /\ vh.op = "VerifyHeaders"
    /\ vh.results # <<>>
    /\ vh' = [vh EXCEPT !.results = Tail(@), !.received = Append(@, Head(vh.results))]
    /\ UNCHANGED <<rest, recents, db, signer, signFn, vs, cd, prep, sl, clock>>

InitHeaders ==
    /\ recents = EmptyCache
    /\ db = EmptyStore
    /\ signer = ZeroAddr
    /\ signFn = NoFn
    /\ vs = Idle
    /\ cd = Idle
    /\ prep = Idle
    /\ sl = Idle
    /\ clock = 0
    /\ \E headers \in Batches :
          vh = [op |-> "VerifyHeaders", headers |-> headers, i |-> 1, pc |-> "verify",
                err |-> "nil", verdicts |-> <<>>, results |-> <<>>, received |-> <<>>,
                late |-> 0, abort |-> FALSE]
    /\ IdleRest

NextHeaders ==
    \/ VerifyHeadersVerify
    \/ VerifyHeadersSelect
    \/ VerifyHeadersAbort
    \/ VerifyHeadersReceive

SpecHeaders == InitHeaders /\ [][NextHeaders]_vars

\* the results delivered on the stream so far, in order
Delivered == vh.received \o vh.results

\* C9: when the caller does not abort, the goroutine ends having delivered
\* exactly one result per input header, the i-th being the VerifySeal outcome
\* of the i-th header.
C9_OneResultPerHeader ==
    (~vh.abort /\ vh.pc \in {"done", "crashed"})
    => /\ Len(Delivered) = Len(vh.headers)
       /\ Delivered = vh.verdicts

\* C10: once the caller has signalled abort, no further result is delivered,
\* except at most the one being sent at the instant of the abort.
C10_NoResultAfterAbort == vh.late <= 1

----------------------------------------------------------------------------
(* Genaro.snapshot step by step (SpecSnapshot): goroutines of one engine    *)
(* call g.snapshot one after the other or at the same time.  The cache       *)
(* (lru.ARCCache) is safe for concurrent use, so a lookup and an insertion   *)
(* are one step each; the write to the store is a third step.                *)

\* snapshot calls each goroutine makes
MaxCalls == 2

Callers == {"g1", "g2"}

\* the miss branches of g.snapshot: the snapshot derived from the genesis
\* block or from the header one past the end of the material epoch
deriveSnapshot(epollNumber) ==
    LET endBlock == GetLastBlockNumberOfEpoch(epollNumber - ValidPeriod - ElectionPeriod)
    IN  IF epollNumber < ValidPeriod + ElectionPeriod
        THEN newSnapshot(0, 0, ChainRank(0), ChainProportion(0))
        ELSE newSnapshot(endBlock + 1, epollNumber - ValidPeriod - ElectionPeriod,
                         ChainRank(endBlock + 1), ChainProportion(endBlock + 1))

NoCall == [pc |-> "idle", n |-> 0, epollNumber |-> 0, snap |-> NoSnap,
           isCreateNew |-> FALSE, ret |-> NoSnap, err |-> "nil"]

\* the cache lookup and, on a miss, the derivation
SnapshotGet(c, e) ==
    /\ sn.call[c].pc \in {"idle", "done"}
    /\ sn.call[c].n < MaxCalls
    /\ sn' = [sn EXCEPT !.call[c] =
                 [pc |-> "add", n |-> sn.call[c].n + 1, epollNumber |-> e,
                  snap |-> IF recents[e] # NoSnap THEN recents[e] ELSE deriveSnapshot(e),
                  isCreateNew |-> recents[e] = NoSnap,
                  ret |-> NoSnap, err |-> "nil"]]
    /\ UNCHANGED <<recents, db, signer, signFn, vs, cd, prep, sl, clock, vh, rk, st, sg, lk,
                 mint>>

\* g.recents.Add, and the return of a call that created nothing
SnapshotAdd(c) ==
    /\ sn.call[c].pc = "add"
    /\ recents' = [recents EXCEPT ![sn.call[c].epollNumber] = sn.call[c].snap]
    /\ sn' = IF sn.call[c].isCreateNew
             THEN [sn EXCEPT !.call[c].pc = "store"]
             ELSE [sn EXCEPT !.call[c].pc = "done",
                             !.call[c].ret = sn.call[c].snap]
    /\ UNCHANGED <<db, signer, signFn, vs, cd, prep, sl, clock, vh, rk, st, sg, lk,
                 mint>>

\* snap.store(g.db) and the return that follows it
SnapshotStore(c) ==
    /\ sn.call[c].pc = "store"
    /\ \E storeOk \in BOOLEAN :
          IF storeOk
          THEN /\ db' = [db EXCEPT ![sn.call[c].snap.EpochNumber] = sn.call[c].snap]
               /\ sn' = [sn EXCEPT !.call[c].pc = "done",
                                   !.call[c].ret = sn.call[c].snap,
                                   !.written = @ \cup {sn.call[c].snap}]
          ELSE /\ db' = db
               /\ sn' = [sn EXCEPT !.call[c].pc = "done",
                                   !.call[c].err = "errStore"]
    /\ UNCHANGED <<recents, signer, signFn, vs, cd, prep, sl, clock, vh, rk, st, sg, lk,
                 mint>>

InitSnapshot ==
    /\ recents = EmptyCache
    /\ db = EmptyStore
    /\ signer = ZeroAddr
    /\ signFn = NoFn
    /\ vs = Idle
    /\ cd = Idle
    /\ prep = Idle
    /\ sl = Idle
    /\ clock = 0
    /\ vh = Idle
    /\ mint = Idle
    /\ sn = [call |-> [c \in Callers |-> NoCall], written |-> {}]
    /\ rk = Idle
    /\ st = Idle
    /\ sg = Idle
    /\ lk = Idle

NextSnapshot ==
    \/ \E c \in Callers, e \in Epochs : SnapshotGet(c, e)
    \/ \E c \in Callers : SnapshotAdd(c)
    \/ \E c \in Callers : SnapshotStore(c)

SpecSnapshot == InitSnapshot /\ [][NextSnapshot]_vars

\* a call that has returned
Returned(c) == sn.call[c].pc = "done"

\* C11: every snapshot a call returns without error has been written to the
\* store before it is returned, and a call whose store write fails returns
\* the error and no snapshot.
C11_WrittenBeforeReturned ==
    \A c \in Callers :
        Returned(c) =>
            /\ sn.call[c].err = "nil" => sn.call[c].ret \in sn.written
            /\ sn.call[c].err # "nil" => sn.call[c].ret = NoSnap

\* the two goroutines made one call each, for the same epoch
TwoCallsSameEpoch ==
    /\ \A c \in Callers : Returned(c) /\ sn.call[c].n = 1
    /\ \A c, d \in Callers : sn.call[c].epollNumber = sn.call[d].epollNumber

\* C12: two calls for the same epoch, sequential or concurrent, return
\* identical snapshots and leave the cache and the store holding that
\* snapshot for the epoch.
C12_Idempotent ==
    TwoCallsSameEpoch =>
        /\ \A c, d \in Callers :
              (sn.call[c].ret # NoSnap /\ sn.call[d].ret # NoSnap)
              => sn.call[c].ret = sn.call[d].ret
        /\ \A c \in Callers :
              sn.call[c].ret # NoSnap
              => /\ recents[sn.call[c].epollNumber] = sn.call[c].ret
                 /\ db[sn.call[c].ret.EpochNumber] = sn.call[c].ret

----------------------------------------------------------------------------
(* Unsigned integers wider than the model checker's: a natural number is a  *)
(* tuple of Limbs digits in base LimbBase, least significant first.  A      *)
(* uint64 is such a number with only its low 64 bits kept (Wrap64).         *)

LimbBase == 65536
LimbBits == 16
Limbs == 6
WordLimbs == 4

BigZero == <<0, 0, 0, 0, 0, 0>>

\* the number n, for 0 <= n < LimbBase * LimbBase
BigOfNat(n) == <<n % LimbBase, n \div LimbBase, 0, 0, 0, 0>>

\* the value of a number that fits the model checker's integers
NatOfBig(a) == a[1] + LimbBase * a[2]

BigFitsNat(a) == a[2] < LimbBase \div 4 /\ \A i \in 3..Limbs : a[i] = 0

RECURSIVE BigAddFrom(_, _, _, _)
\* the digits i.. of a + b, given the carry into digit i
BigAddFrom(a, b, i, carry) ==
    IF i > Limbs THEN <<>>
    ELSE <<(a[i] + b[i] + carry) % LimbBase>>
         \o BigAddFrom(a, b, i + 1, (a[i] + b[i] + carry) \div LimbBase)

\* a + b; a carry out of the highest digit is dropped
BigAdd(a, b) == BigAddFrom(a, b, 1, 0)

RECURSIVE BigSubFrom(_, _, _, _)
\* the digits i.. of a - b, given the borrow from digit i
BigSubFrom(a, b, i, borrow) ==
    IF i > Limbs THEN <<>>
    ELSE <<(a[i] - b[i] - borrow + LimbBase) % LimbBase>>
         \o BigSubFrom(a, b, i + 1, IF a[i] - b[i] - borrow < 0 THEN 1 ELSE 0)

\* a - b, for a >= b
BigSub(a, b) == BigSubFrom(a, b, 1, 0)

RECURSIVE BigMulFrom(_, _, _, _)
\* the digits i.. of a * k, given the carry into digit i
BigMulFrom(a, k, i, carry) ==
    IF i > Limbs THEN <<>>
    ELSE <<(a[i] * k + carry) % LimbBase>>
         \o BigMulFrom(a, k, i + 1, (a[i] * k + carry) \div LimbBase)

\* a * k, for 0 <= k < LimbBase \div 2
BigMulSmall(a, k) == BigMulFrom(a, k, 1, 0)

BigLess(a, b) ==
    \E i \in 1..Limbs : a[i] < b[i] /\ \A j \in (i + 1)..Limbs : a[j] = b[j]

BigLeq(a, b) == a = b \/ BigLess(a, b)

\* bit k of a, k = 0 the least significant
BigBit(a, k) == (a[k \div LimbBits + 1] \div 2 ^ (k % LimbBits)) % 2

\* one step of the long division of a by d: x is <<a, d, q, r, k>>, q and r
\* the quotient and remainder of the bits of a above bit k
BigDivBit(x) ==
    LET r2 == BigAdd(BigAdd(x[4], x[4]), BigOfNat(BigBit(x[1], x[5])))
        q2 == BigAdd(x[3], x[3])
    IN  IF BigLeq(x[2], r2)
        THEN <<x[1], x[2], BigAdd(q2, BigOfNat(1)), BigSub(r2, x[2]), x[5] - 1>>
        ELSE <<x[1], x[2], q2, r2, x[5] - 1>>

RECURSIVE BigDivBits(_, _)
\* n steps of the long division; every intermediate value is bound before
\* the next step uses it
BigDivBits(x, n) ==
    IF n = 0 THEN x
    ELSE CHOOSE z \in {BigDivBits(y, n - 1) : y \in {BigDivBit(x)}} : TRUE

RECURSIVE BigDivFrom(_)
\* the steps from bit k down to bit 0, one digit of the dividend at a time
BigDivFrom(x) ==
    IF x[5] < 0 THEN x[3]
    ELSE CHOOSE q \in {BigDivFrom(y) : y \in {BigDivBits(x, LimbBits)}} : TRUE

\* a / d truncated, for d # 0
BigDiv(a, d) ==
    CHOOSE q \in {BigDivFrom(x) :
                     x \in {<<a, d, BigZero, BigZero, Limbs * LimbBits - 1>>}} : TRUE

\* conversion to uint64: the low 64 bits
Wrap64(a) == <<a[1], a[2], a[3], a[4], 0, 0>>

RECURSIVE BigSum(_)
\* the sum of a sequence of numbers
BigSum(xs) == IF xs = <<>> THEN BigZero ELSE BigAdd(Head(xs), BigSum(Tail(xs)))

----------------------------------------------------------------------------
(* Rank (SpecRank): the candidates of an epoch, their stakes uint64.        *)

\* longest candidate list handed to Rank
MaxCandidates == 3

MaxUint64 == <<65535, 65535, 65535, 65535, 0, 0>>
\* 2^63
HalfRange == <<0, 0, 0, 32768, 0, 0>>
\* the largest stake whose product with base fits 64 bits, and the next one
LargestScalable == <<4299, 47815, 36280, 6, 0, 0>>
SmallestWrapping == <<4300, 47815, 36280, 6, 0, 0>>

StakeValues ==
    {BigZero, BigOfNat(10), BigOfNat(30), BigOfNat(60),
     LargestScalable, SmallestWrapping, HalfRange, MaxUint64}

\* the signer of the i-th candidate
CandidateSigner == <<"a1", "a2", "a3", "a4">>

\* state.CandidateInfos: the i-th candidate with any of the stakes
CandidateLists ==
    UNION {{[i \in 1..k |-> [Signer |-> CandidateSigner[i], Stake |-> stake[i]]] :
               stake \in [1..k -> StakeValues]} :
           k \in 0..MaxCandidates}

\* sort.Sort(candidateInfos): the orders it can leave the candidates in,
\* highest stake first; the sort is not stable, equal stakes come out in any order
SortOutcomes(candidateInfos) ==
    LET n == Len(candidateInfos)
        perms == {p \in [1..n -> 1..n] : \A i, j \in 1..n : i # j => p[i] # p[j]}
    IN  {[i \in 1..n |-> candidateInfos[p[i]]] : p \in
            {q \in perms : \A i, j \in 1..n :
                i < j => BigLeq(candidateInfos[q[j]].Stake, candidateInfos[q[i]].Stake)}}

Stakes(candidateInfos) == [i \in 1..Len(candidateInfos) |-> candidateInfos[i].Stake]

\* Rank after the sort: the two lists it returns, and whether it divided
Rank(sorted) ==
    LET n == Len(sorted)
        total == Wrap64(BigSum(Stakes(sorted)))
    IN  IF total = BigZero
        THEN [committeeRank |-> [i \in 1..n |-> ZeroAddr],
              proportion |-> [i \in 1..n |-> BigZero], divided |-> FALSE]
        ELSE [committeeRank |-> [i \in 1..n |-> sorted[i].Signer],
              proportion |-> [i \in 1..n |->
                                 BigDiv(Wrap64(BigMulSmall(sorted[i].Stake, base)), total)],
              divided |-> TRUE]

RankCall(candidateInfos) ==
    /\ rk = Idle
    /\ \E sorted \in SortOutcomes(candidateInfos) :
       \E out \in {Rank(sorted)} :
          rk' = [op |-> "Rank", candidateInfos |-> candidateInfos, sorted |-> sorted,
                 committeeRank |-> out.committeeRank,
                 proportion |-> out.proportion,
                 divided |-> out.divided]
    /\ UNCHANGED <<recents, db, signer, signFn, vs, cd, prep, sl, clock, vh, sn, st, sg, lk,
                 mint>>

InitRank == InitVerify

NextRank == \E candidateInfos \in CandidateLists : RankCall(candidateInfos)

SpecRank == InitRank /\ [][NextRank]_vars

\* the candidates' total stake, as a number
TotalStake == BigSum(Stakes(rk.candidateInfos))

\* C13: for a non-zero total stake, Rank returns no more entries than
\* candidates, in non-increasing stake order, proportion_i being
\* stake_i * 10000 / totalStake truncated and the proportions summing to at
\* most 10000, for every uint64 stake, products and sums beyond 2^64 - 1 included.
C13_Proportions ==
    (rk.op = "Rank" /\ TotalStake # BigZero) =>
        LET n == Len(rk.candidateInfos) IN
        /\ Len(rk.committeeRank) <= n /\ Len(rk.proportion) <= n
        /\ \A i \in 1..Len(rk.committeeRank) :
              /\ rk.committeeRank[i] = rk.sorted[i].Signer
              /\ \A j \in 1..Len(rk.committeeRank) :
                    i < j => BigLeq(rk.sorted[j].Stake, rk.sorted[i].Stake)
        /\ \A i \in 1..Len(rk.proportion) :
              rk.proportion[i] = BigDiv(BigMulSmall(rk.sorted[i].Stake, base), TotalStake)
        /\ BigLeq(BigSum(rk.proportion), BigOfNat(base))

\* C20: when the total stake is zero, also for a non-empty list of candidates
\* with zero stake, Rank returns an empty address list and an empty
\* proportion list and divides nothing.
C20_ZeroTotal ==
    (rk.op = "Rank" /\ TotalStake = BigZero) =>
        /\ rk.committeeRank = <<>>
        /\ rk.proportion = <<>>
        /\ ~rk.divided

----------------------------------------------------------------------------
(* The reward ledger (state.StateDB): the balances Finalize reads and       *)
(* writes.  Balances are big.Int values.  GetBalance returns a *big.Int:   *)
(* either the ledger's own big.Int or a copy of it (shared), and a          *)
(* computation made in place on the returned value changes the balance of   *)
(* a ledger that hands out its own.                                         *)
(*   SurplusCoin              balance of SurplusCoinAddress                 *)
(*   CoinActualRewards        balance of CoinActualRewardsAddress           *)
(*   StorageActualRewards     balance of StorageActualRewardsAddress        *)
(*   Pre...                   balance of Pre + the address                  *)
(*   TotalActualRewards       balance of TotalActualRewardsAddress          *)
(*   balance                  the recipients' accounts                      *)
(*   AlreadyBackStakeList     the pending withdrawal requests               *)

updateEpochRewards_CoinOnly(l) ==
    [l EXCEPT !.PreCoinActualRewards = l.CoinActualRewards,
              !.PreStorageActualRewards = l.StorageActualRewards,
              !.CoinActualRewards = 0,
              !.StorageActualRewards = 0,
              !.TotalActualRewards = @ + l.CoinActualRewards]

updateEpochRewards(l) ==
    [l EXCEPT !.PreCoinActualRewards = l.CoinActualRewards,
              !.PreStorageActualRewards = l.StorageActualRewards,
              !.CoinActualRewards = 0,
              !.StorageActualRewards = 0,
              !.TotalActualRewards = @ + l.CoinActualRewards + l.StorageActualRewards]

updateEpochYearRewards(l) ==
    [l EXCEPT !.PreSurplusCoin = l.SurplusCoin,
              !.SurplusCoin = @ - l.TotalActualRewards,
              !.TotalActualRewards = 0]

\* the year-boundary update before the epoch roll
updateSpecialBlock_YearFirst(l, blockNumber) ==
    LET l1 == IF blockNumber % (epochPerYear * Epoch) = 0
              THEN updateEpochYearRewards(l) ELSE l
    IN  IF blockNumber % Epoch = 0 THEN updateEpochRewards(l1) ELSE l1

\* updateSpecialBlock, the ledger part: the epoch roll, then the year roll
updateSpecialBlock(l, blockNumber) ==
    LET l1 == IF blockNumber % Epoch = 0 THEN updateEpochRewards(l) ELSE l
    IN  IF blockNumber % (epochPerYear * Epoch) = 0
        THEN updateEpochYearRewards(l1) ELSE l1

\* x.Mul(a, b) followed by x.Div(x, c) on big.Int values, c > 0: the quotient
\* of the exact product, computed without forming the product
MulDiv(a, b, c) ==
    LET qa == a \div c
        ra == a % c
        qb == b \div c
        rb == b % c
    IN  qa * qb * c + qa * rb + ra * qb + (ra * rb) \div c

\* (*big.Int).Uint64: the low bits of the absolute value
Uint64(x) == IF x < 0 THEN -x ELSE x

getCoinCofficient(coinrewards, surplusRewards) ==
    IF coinrewards = 0 THEN base
    ELSE LET total == MulDiv(surplusRewards, coinRewardsRatio, base)
             perYear == (total \div ratioPerYear) * base
             perEpoch == perYear \div Epoch
         IN  Uint64(MulDiv(perEpoch, base, coinrewards))

getStorageCoefficient(storagerewards, surplusRewards) ==
    IF storagerewards = 0 THEN base
    ELSE LET total == MulDiv(surplusRewards, storageRewardsRatio, base)
             perYear == (total \div ratioPerYear) * base
             perEpoch == perYear \div Epoch
         IN  Uint64(MulDiv(perEpoch, base, storagerewards))

\* the surplus the coefficient is computed from
preSurplusRewards(l, blockNumber) ==
    IF blockNumber % (Epoch * epochPerYear) = 0 THEN l.PreSurplusCoin ELSE l.SurplusCoin

\* surplusRewards := state.GetBalance(SurplusCoinAddress) followed by
\* surplusRewards.Mul(surplusRewards, ...) and the Div calls on the same
\* big.Int: the value has become result, and so has the surplus pool of a
\* ledger that handed out its own big.Int
ComputedInPlace(l, result) ==
    IF l.shared THEN [l EXCEPT !.SurplusCoin = result] ELSE l

\* state.AddBalance(addr, amount) on a recipient's account
AddBalance(l, addr, amount) == [l EXCEPT !.balance[addr] = @ + amount]

\* accumulateInterestRewards: the ledger it leaves, with the coefficient and
\* the reward of the block
accumulateInterestRewards(l, coinbase, proportion, blockNumber) ==
    LET coefficient == getCoinCofficient(l.PreCoinActualRewards,
                                         preSurplusRewards(l, blockNumber))
        perYear == MulDiv(l.SurplusCoin, coinRewardsRatio, base)
        perEpoch == perYear \div epochPerYear
        adjusted == MulDiv(perEpoch, coefficient, base)
        planRewards == MulDiv(adjusted, proportion, base)
        blockReward == planRewards \div Epoch
    IN  [ledger |-> [AddBalance(ComputedInPlace(l, blockReward), coinbase, blockReward)
                        EXCEPT !.CoinActualRewards = @ + blockReward],
         coefficient |-> coefficient,
         reward |-> blockReward]

\* the reward of one candidate: the product is overwritten by the quotient
\* of blockReward and total
StorageReward(blockReward, contribute, total) == blockReward \div total

RECURSIVE AllocateFrom(_, _, _, _, _, _)
\* the allocation loop from candidate i on
AllocateFrom(l, cs, contributes, blockReward, total, i) ==
    IF i > Len(cs) THEN l
    ELSE LET reward == StorageReward(blockReward, contributes[i], total)
         IN  AllocateFrom([AddBalance(l, cs[i], reward)
                              EXCEPT !.StorageActualRewards = @ + reward],
                          cs, contributes, blockReward, total, i + 1)

RECURSIVE SeqSum(_)
SeqSum(xs) == IF xs = <<>> THEN 0 ELSE Head(xs) + SeqSum(Tail(xs))

\* accumulateStorageRewards: the ledger it leaves, with the coefficient, the
\* planned reward of the block and what each candidate was credited
accumulateStorageRewards(l, cs, contributes, blockNumber) ==
    LET coefficient == getStorageCoefficient(l.PreStorageActualRewards,
                                             preSurplusRewards(l, blockNumber))
        perYear == MulDiv(l.SurplusCoin, storageRewardsRatio, base)
        perEpoch == perYear \div epochPerYear
        planRewards == MulDiv(perEpoch, coefficient, base)
        blockReward == planRewards \div Epoch
        total == SeqSum(contributes)
    IN  [ledger |-> IF total = 0 THEN ComputedInPlace(l, blockReward)
                    ELSE AllocateFrom(ComputedInPlace(l, blockReward), cs, contributes,
                                      blockReward, total, 1),
         coefficient |-> coefficient,
         blockReward |-> blockReward,
         paid |-> [i \in 1..Len(cs) |->
                      IF total = 0 THEN 0
                      ELSE StorageReward(blockReward, contributes[i], total)]]

\* snap.Committee[header.Coinbase]: zero for an address that is no member
ProportionOf(snap, coinbase) ==
    IF coinbase \in DOMAIN snap.Committee THEN snap.Committee[coinbase] ELSE 0

\* the maturity offset, in epochs
backStakePeriod == 2

\* a request is mature once backStakePeriod epochs have passed since its block
IsBackStakeBlockNumber(applyBlockNumber, blockNumber) ==
    blockNumber >= applyBlockNumber + backStakePeriod * Epoch

\* append(backlist[:i], backlist[i+1:]...), i counted from 0
RemoveAt(backlist, i) ==
    SubSeq(backlist, 1, i) \o SubSeq(backlist, i + 2, Len(backlist))

RECURSIVE BackStakeLoop_NoStepBack(_, _, _)
\* the loop without the i-- after a removal
BackStakeLoop_NoStepBack(backlist, i, blockNumber) ==
    IF i >= Len(backlist) THEN backlist
    ELSE IF IsBackStakeBlockNumber(backlist[i + 1].BackBlockNumber, blockNumber)
         THEN BackStakeLoop_NoStepBack(RemoveAt(backlist, i), i + 1, blockNumber)
         ELSE BackStakeLoop_NoStepBack(backlist, i + 1, blockNumber)

RECURSIVE BackStakeLoop(_, _, _)
\* for i := 0; i < len(backlist); i++ { ... }, from index i on: a mature
\* entry is cut out and i is stepped back, so the loop's i++ looks at the
\* entry that moved into its place
BackStakeLoop(backlist, i, blockNumber) ==
    IF i >= Len(backlist) THEN backlist
    ELSE IF IsBackStakeBlockNumber(backlist[i + 1].BackBlockNumber, blockNumber)
         THEN BackStakeLoop(RemoveAt(backlist, i), (i - 1) + 1, blockNumber)
         ELSE BackStakeLoop(backlist, i + 1, blockNumber)

handleAlreadyBackStakeList_NoStepBack(backlist, blockNumber) ==
    BackStakeLoop_NoStepBack(backlist, 0, blockNumber)

\* handleAlreadyBackStakeList: the list it stores, from the list it got
handleAlreadyBackStakeList(backlist, blockNumber) ==
    BackStakeLoop(backlist, 0, blockNumber)

\* handleApplyBackStakeList: the same pass over the same stored list
handleApplyBackStakeList(backlist, blockNumber) ==
    BackStakeLoop(backlist, 0, blockNumber)

\* Finalize with the block's rewards credited before the counters are rolled
Finalize_RewardsFirst(l, coinbase, cs, contributes, blockNumber, sres) ==
    LET coin == accumulateInterestRewards(l, coinbase,
                                          ProportionOf(sres.snap, coinbase), blockNumber)
        storage == accumulateStorageRewards(coin.ledger, cs, contributes, blockNumber)
        l1 == updateSpecialBlock(
                  [storage.ledger EXCEPT !.AlreadyBackStakeList =
                      handleAlreadyBackStakeList(@, blockNumber)], blockNumber)
    IN  IF sres.err # "nil"
        THEN [ret |-> sres.err, ledger |-> updateSpecialBlock(l, blockNumber),
              rolled |-> updateSpecialBlock(l, blockNumber),
              coinCoefficient |-> 0, coinReward |-> 0,
              storageCoefficient |-> 0, blockReward |-> 0,
              paid |-> [i \in 1..Len(cs) |-> 0]]
        ELSE [ret |-> "nil", ledger |-> l1, rolled |-> l1,
              coinCoefficient |-> coin.coefficient, coinReward |-> coin.reward,
              storageCoefficient |-> storage.coefficient,
              blockReward |-> storage.blockReward, paid |-> storage.paid]

\* Finalize, the ledger part: the returned error, the ledger as the call
\* leaves it, the ledger as updateSpecialBlock left it, and what the two
\* reward computations did; sres is the result of its g.snapshot call
Finalize(l, coinbase, cs, contributes, blockNumber, sres) ==
    LET l1 == updateSpecialBlock(l, blockNumber)
        coin == accumulateInterestRewards(l1, coinbase,
                                          ProportionOf(sres.snap, coinbase), blockNumber)
        storage == accumulateStorageRewards(coin.ledger, cs, contributes, blockNumber)
    IN  IF sres.err # "nil"
        THEN [ret |-> sres.err, ledger |-> l1, rolled |-> l1,
              coinCoefficient |-> 0, coinReward |-> 0,
              storageCoefficient |-> 0, blockReward |-> 0,
              paid |-> [i \in 1..Len(cs) |-> 0]]
        ELSE [ret |-> "nil",
              ledger |-> [storage.ledger EXCEPT !.AlreadyBackStakeList =
                             handleAlreadyBackStakeList(@, blockNumber)],
              rolled |-> l1,
              coinCoefficient |-> coin.coefficient, coinReward |-> coin.reward,
              storageCoefficient |-> storage.coefficient,
              blockReward |-> storage.blockReward, paid |-> storage.paid]

----------------------------------------------------------------------------
(* Finalize calls on consecutive blocks (SpecFinalize).                     *)

\* state.GetCandidates()
Candidates == <<"a2", "a4">>
\* state.GetHeftLastDiff of the candidates at a block
HeftLists == {<<0, 0>>, <<1, 0>>, <<1, 2>>}
\* header.Coinbase: a committee member, and an address outside the committee
Coinbases == {"a1", "a4"}
\* the surplus pool of the chain
Surpluses == {9600, 19200}
\* the first block finalized: the chain's first block, or a block late in
\* the first year of a chain that has paid no reward yet
FinalizeStarts == {1, epochPerYear * Epoch - (MaxFinalize - 1)}

\* the pending withdrawal requests of the chain
FinalizeBackLists ==
    {<<>>, <<[Addr |-> "a2", BackBlockNumber |-> 0], [Addr |-> "a1", BackBlockNumber |-> 1]>>}

FreshLedger(surplus, shared, backlist) ==
    [shared |-> shared, AlreadyBackStakeList |-> backlist,
     SurplusCoin |-> surplus, PreSurplusCoin |-> 0,
     CoinActualRewards |-> 0, StorageActualRewards |-> 0,
     PreCoinActualRewards |-> 0, PreStorageActualRewards |-> 0,
     TotalActualRewards |-> 0,
     balance |-> [a \in Addr |-> 0]]

RECURSIVE SumOver(_, _)
SumOver(f, S) ==
    IF S = {} THEN 0
    ELSE LET a == CHOOSE x \in S : TRUE IN f[a] + SumOver(f, S \ {a})

\* everything credited to the recipients' accounts so far
Credited(l) == SumOver(l.balance, Addr)

NoFinalize == [ret |-> "none"]

FinalizeCall(coinbase, contributes) ==
    /\ st # Idle
    /\ st.calls < MaxFinalize
    /\ \E storeOk \in BOOLEAN :
          LET blockNumber == st.number
              sres == snapshot(recents, db,
                               GetTurnOfCommiteeByBlockNumber(blockNumber), storeOk)
          IN  \E out \in {Finalize(st.ledger, coinbase, Candidates, contributes,
                                   blockNumber, sres)} :
                /\ st' = [op |-> "Finalize", number |-> blockNumber + 1,
                          calls |-> st.calls + 1,
                          ledger |-> out.ledger,
                          atReset |-> IF blockNumber % (epochPerYear * Epoch) = 0
                                      THEN Credited(st.ledger) ELSE st.atReset,
                          atEpoch |-> IF blockNumber % Epoch = 0
                                      THEN Credited(st.ledger) ELSE st.atEpoch,
                          last |-> [ret |-> out.ret, number |-> blockNumber,
                                    before |-> st.ledger,
                                    rolled |-> out.rolled,
                                    coinbase |-> coinbase,
                                    contributes |-> contributes,
                                    epochCredited |-> Credited(st.ledger) - st.atEpoch,
                                    coinCoefficient |-> out.coinCoefficient,
                                    coinReward |-> out.coinReward,
                                    storageCoefficient |-> out.storageCoefficient,
                                    blockReward |-> out.blockReward,
                                    paid |-> out.paid]]
                /\ recents' = sres.recents
                /\ db' = sres.db
    /\ UNCHANGED <<signer, signFn, vs, cd, prep, sl, clock, vh, sn, rk, sg, lk,
                 mint>>

InitFinalize ==
    /\ recents = EmptyCache
    /\ db = EmptyStore
    /\ signer = ZeroAddr
    /\ signFn = NoFn
    /\ vs = Idle
    /\ cd = Idle
    /\ prep = Idle
    /\ sl = Idle
    /\ clock = 0
    /\ vh = Idle
    /\ mint = Idle
    /\ sn = Idle
    /\ rk = Idle
    /\ \E number \in FinalizeStarts, surplus \in Surpluses, shared \in BOOLEAN,
          backlist \in FinalizeBackLists :
          st = [op |-> "Finalize", number |-> number, calls |-> 0,
                ledger |-> FreshLedger(surplus, shared, backlist),
                atReset |-> 0, atEpoch |-> 0,
                last |-> NoFinalize]
    /\ sg = Idle
    /\ lk = Idle

NextFinalize ==
    \E coinbase \in Coinbases, contributes \in HeftLists :
        FinalizeCall(coinbase, contributes)

SpecFinalize == InitFinalize /\ [][NextFinalize]_vars

\* a Finalize call has returned
Finalized == st.op = "Finalize" /\ st.last # NoFinalize

\* the rewards-paid counters and the accumulator together
RewardsPaid(l) == l.TotalActualRewards + l.CoinActualRewards + l.StorageActualRewards

\* C14: the total-rewards-paid accumulator plus the coin and storage
\* rewards-paid counters equals everything credited to recipient accounts
\* since the last year-boundary reset, and at an epoch boundary the
\* accumulator grows by exactly what was credited during the epoch just
\* finished.
C14_RewardInvariant ==
    st.op = "Finalize" =>
        /\ RewardsPaid(st.ledger) = Credited(st.ledger) - st.atReset
        /\ (Finalized /\ st.last.number % Epoch = 0) =>
              updateEpochRewards(st.last.before).TotalActualRewards
                  - st.last.before.TotalActualRewards
              = st.last.epochCredited

\* C14 witness: an epoch boundary after an epoch in which coin and storage
\* rewards were credited, following an earlier epoch roll.
C14_Witness ==
    /\ Finalized
    /\ st.last.number % Epoch = 0
    /\ st.last.before.CoinActualRewards > 0
    /\ st.last.before.StorageActualRewards > 0
    /\ st.last.before.TotalActualRewards > 0
    /\ st.last.epochCredited
           = st.last.before.CoinActualRewards + st.last.before.StorageActualRewards

\* C15: at a block with blockNumber % (12 * epoch) = 0 the previous-year
\* surplus becomes the surplus pool's old value, the surplus pool becomes
\* oldSurplus - T, T the accumulator including the rewards of the epoch that
\* ends at this block, and the accumulator becomes zero.
C15_YearBoundary ==
    (Finalized /\ st.last.number % (epochPerYear * Epoch) = 0) =>
        /\ st.last.rolled.PreSurplusCoin = st.last.before.SurplusCoin
        /\ st.last.rolled.SurplusCoin
               = st.last.before.SurplusCoin - RewardsPaid(st.last.before)
        /\ st.last.rolled.TotalActualRewards = 0
        /\ st.ledger.PreSurplusCoin = st.last.before.SurplusCoin
        /\ st.ledger.TotalActualRewards = 0

\* C15 witness: a year boundary reached with rewards of earlier epochs in the
\* accumulator and rewards of the ending epoch still in the counters.
C15_Witness ==
    /\ Finalized
    /\ st.last.number % (epochPerYear * Epoch) = 0
    /\ st.last.before.TotalActualRewards > 0
    /\ st.last.before.CoinActualRewards + st.last.before.StorageActualRewards > 0
    /\ st.last.rolled.SurplusCoin
           = st.last.before.SurplusCoin - RewardsPaid(st.last.before)

\* C18: in a block with positive total heft, a candidate with contribution
\* c_i is credited blockReward * c_i / total, a candidate with zero
\* contribution nothing, the storage counter grows by the same amounts, and
\* the sum credited does not exceed blockReward.
C18_StorageShares ==
    (Finalized /\ st.last.ret = "nil" /\ SeqSum(st.last.contributes) > 0) =>
        LET total == SeqSum(st.last.contributes)
            before == updateSpecialBlock(st.last.before, st.last.number)
        IN  /\ \A i \in 1..Len(Candidates) :
                  /\ st.last.paid[i] = (st.last.blockReward * st.last.contributes[i]) \div total
                  /\ st.last.contributes[i] = 0 => st.last.paid[i] = 0
            /\ st.ledger.StorageActualRewards - before.StorageActualRewards
                   = SeqSum(st.last.paid)
            /\ SeqSum(st.last.paid) <= st.last.blockReward

\* the coefficient the reward rules give: base when nothing was paid, else
\* plannedPerEpoch * base / actualPaid, plannedPerEpoch = surplus * ratio / base / 12
PlannedCoefficient(actualPaid, surplus, ratio) ==
    IF actualPaid = 0 THEN base
    ELSE MulDiv(MulDiv(surplus, ratio, base) \div epochPerYear, base, actualPaid)

\* C19: for both reward categories the coefficient is base when the previous
\* period's paid amount is zero, and otherwise plannedPerEpoch * base /
\* actualPaid with the planned-per-epoch amount of the per-block computation.
C19_Coefficient ==
    (Finalized /\ st.last.ret = "nil") =>
        LET before == updateSpecialBlock(st.last.before, st.last.number)
            surplus == preSurplusRewards(before, st.last.number)
        IN  /\ st.last.coinCoefficient
                   = PlannedCoefficient(before.PreCoinActualRewards, surplus,
                                        coinRewardsRatio)
            /\ st.last.storageCoefficient
                   = PlannedCoefficient(before.PreStorageActualRewards, surplus,
                                        storageRewardsRatio)

\* C21: at every block with blockNumber % epoch = 0, Finalize sets the
\* previous-epoch coin and storage counters to the values the current
\* counters held, resets both current counters to zero and increases the
\* accumulator by exactly the sum of those two values, before the block's own
\* rewards are credited: after the call the current counters hold the
\* block's own rewards only.
C21_EpochRoll ==
    (Finalized /\ st.last.number % Epoch = 0) =>
        LET before == st.last.before
            rolled == updateEpochRewards(before)
        IN  /\ st.ledger.PreCoinActualRewards = before.CoinActualRewards
            /\ st.ledger.PreStorageActualRewards = before.StorageActualRewards
            /\ rolled.TotalActualRewards
                   = before.TotalActualRewards + before.CoinActualRewards
                         + before.StorageActualRewards
            /\ IF st.last.number % (epochPerYear * Epoch) = 0
               THEN st.last.rolled = updateEpochYearRewards(rolled)
               ELSE /\ st.last.rolled = rolled
                    /\ st.ledger.TotalActualRewards = rolled.TotalActualRewards
            /\ st.ledger.CoinActualRewards
                   = (IF st.last.ret = "nil" THEN st.last.coinReward ELSE 0)
            /\ st.ledger.StorageActualRewards
                   = (IF st.last.ret = "nil" THEN SeqSum(st.last.paid) ELSE 0)

\* C21 witness: an epoch boundary whose counters held coin and storage
\* rewards, and whose own block earns a coin and a storage reward.
C21_Witness ==
    /\ Finalized
    /\ st.last.number % Epoch = 0
    /\ st.last.ret = "nil"
    /\ st.last.before.CoinActualRewards > 0
    /\ st.last.before.StorageActualRewards > 0
    /\ st.last.coinReward > 0
    /\ SeqSum(st.last.paid) > 0
    /\ st.ledger.CoinActualRewards = st.last.coinReward
    /\ st.ledger.PreCoinActualRewards = st.last.before.CoinActualRewards

\* C24: on a block that is not a year boundary Finalize leaves the surplus
\* pool and the previous-year surplus unchanged: the reward computations
\* only read the surplus pool, and change the recipients' balances and the
\* coin and storage rewards-paid counters only.
C24_SurplusFrame ==
    (Finalized /\ st.last.number % (epochPerYear * Epoch) # 0) =>
        /\ st.ledger.SurplusCoin = st.last.before.SurplusCoin
        /\ st.ledger.PreSurplusCoin = st.last.before.PreSurplusCoin
        /\ st.ledger = [st.last.rolled EXCEPT
                           !.balance = st.ledger.balance,
                           !.CoinActualRewards = st.ledger.CoinActualRewards,
                           !.StorageActualRewards = st.ledger.StorageActualRewards,
                           !.AlreadyBackStakeList = st.ledger.AlreadyBackStakeList]

----------------------------------------------------------------------------
(* Back-stake maturation (SpecBackStake): the pending withdrawal requests   *)
(* of the ledger, and the two passes that remove the mature ones.           *)

\* entries in a pending list
MaxBackStake == 3
\* the last block of a behaviour
MaxBackBlock == 7
\* a pending request
BackStakeEntries ==
    [Addr : {"a1", "a2"}, BackBlockNumber : 0..(MaxBackBlock - backStakePeriod * Epoch)]

\* state.GetAlreadyBackStakeList() of a chain
BackStakeLists ==
    UNION {[1..n -> BackStakeEntries] : n \in 0..MaxBackStake}

NoPass == [by |-> "none"]

\* a pass by handleAlreadyBackStakeList on the header of the current block
HandleAlreadyBackStakeList ==
    /\ st # Idle
    /\ st.op = "BackStake"
    /\ st' = [st EXCEPT !.backlist = handleAlreadyBackStakeList(st.backlist, st.number),
                        !.last = [by |-> "handleAlreadyBackStakeList",
                                  number |-> st.number, before |-> st.backlist,
                                  repeated |-> st.passedAt = st.number],
                        !.passedAt = st.number]
    /\ UNCHANGED <<recents, db, signer, signFn, vs, cd, prep, sl, clock, vh, sn, rk, sg, lk,
                 mint>>

\* a pass by handleApplyBackStakeList on the header of the current block
HandleApplyBackStakeList ==
    /\ st # Idle
    /\ st.op = "BackStake"
    /\ st' = [st EXCEPT !.backlist = handleApplyBackStakeList(st.backlist, st.number),
                        !.last = [by |-> "handleApplyBackStakeList",
                                  number |-> st.number, before |-> st.backlist,
                                  repeated |-> st.passedAt = st.number],
                        !.passedAt = st.number]
    /\ UNCHANGED <<recents, db, signer, signFn, vs, cd, prep, sl, clock, vh, sn, rk, sg, lk,
                 mint>>

\* the chain moves on to the next block
BackStakeNextBlock ==
    /\ st # Idle
    /\ st.op = "BackStake"
    /\ st.number < MaxBackBlock
    /\ st' = [st EXCEPT !.number = @ + 1]
    /\ UNCHANGED <<recents, db, signer, signFn, vs, cd, prep, sl, clock, vh, sn, rk, sg, lk,
                 mint>>

InitBackStake ==
    /\ recents = EmptyCache
    /\ db = EmptyStore
    /\ signer = ZeroAddr
    /\ signFn = NoFn
    /\ vs = Idle
    /\ cd = Idle
    /\ prep = Idle
    /\ sl = Idle
    /\ clock = 0
    /\ vh = Idle
    /\ mint = Idle
    /\ sn = Idle
    /\ rk = Idle
    /\ \E backlist \in BackStakeLists :
          st = [op |-> "BackStake", number |-> 1, backlist |-> backlist,
                passedAt |-> 0, last |-> NoPass]
    /\ sg = Idle
    /\ lk = Idle

NextBackStake ==
    \/ HandleAlreadyBackStakeList
    \/ HandleApplyBackStakeList
    \/ BackStakeNextBlock

SpecBackStake == InitBackStake /\ [][NextBackStake]_vars

\* the entries of a list that are not mature at block n, in their order
NotMature(backlist, n) ==
    SelectSeq(backlist, LAMBDA back : ~IsBackStakeBlockNumber(back.BackBlockNumber, n))

\* a pass has run
Passed == st.op = "BackStake" /\ st.last # NoPass

\* C22: after a maturation pass at block n, by either function, the stored
\* list holds exactly the entries of the previous list that are not mature
\* at n, in their original relative order, also when the first entry,
\* consecutive entries or all entries are mature; a second pass at the same
\* block leaves the list unchanged.
C22_MaturationPass ==
    (Passed /\ st.passedAt = st.number) =>
        /\ st.backlist = NotMature(st.last.before, st.last.number)
        /\ st.last.repeated => st.backlist = st.last.before

\* C22 witness: a pass over a list whose first two entries are mature and
\* whose last is not.
C22_Witness ==
    /\ Passed
    /\ st.passedAt = st.number
    /\ Len(st.last.before) = 3
    /\ IsBackStakeBlockNumber(st.last.before[1].BackBlockNumber, st.last.number)
    /\ IsBackStakeBlockNumber(st.last.before[2].BackBlockNumber, st.last.number)
    /\ ~IsBackStakeBlockNumber(st.last.before[3].BackBlockNumber, st.last.number)
    /\ st.backlist = <<st.last.before[3]>>

----------------------------------------------------------------------------
(* The divisors of the reward engine (SpecDivide): an engine built by New   *)
(* from any configured epoch length finalizes a block; each division and    *)
(* remainder it evaluates is recorded with its divisor, up to the first     *)
(* zero divisor, where the call panics.                                     *)

\* the default number of blocks of an epoch
epochLength == 5000
\* block numbers finalized
MaxDivideBlock == 2

\* 2^62, 3 * 2^62 and 2^64
QuarterRange == <<0, 0, 0, 16384, 0, 0>>
ThreeQuarterRange == <<0, 0, 0, 49152, 0, 0>>
WordRange == <<0, 0, 0, 0, 1, 0>>

\* config.Epoch as handed to New
ConfigEpochs ==
    {BigZero, BigOfNat(1), BigOfNat(2), BigOfNat(epochLength),
     QuarterRange, HalfRange, ThreeQuarterRange, MaxUint64}

\* New: the engine's configuration
New(configEpoch) ==
    [Epoch |-> IF configEpoch = BigZero THEN BigOfNat(epochLength) ELSE configEpoch]

\* a uint64 used as a divisor, and int64(x) of a uint64 handed to big.NewInt
UintDivisor(line, x) == [line |-> line, neg |-> FALSE, mag |-> x]
Int64Divisor(line, x) ==
    IF BigLess(x, HalfRange) THEN [line |-> line, neg |-> FALSE, mag |-> x]
    ELSE [line |-> line, neg |-> TRUE, mag |-> BigSub(WordRange, x)]

IsZeroDivisor(d) == d.mag = BigZero

\* blockNumber % epoch == 0 for a small block number
IsMultipleOf(blockNumber, epoch) ==
    IF BigFitsNat(epoch) THEN blockNumber % NatOfBig(epoch) = 0 ELSE blockNumber = 0

\* epochPerYear * config.Epoch, a uint64 product
YearLength(config) == Wrap64(BigMulSmall(config.Epoch, epochPerYear))

\* Rank: it divides by the total stake once per candidate, if the total is not zero
RankDivisors(stakes) ==
    LET total == Wrap64(BigSum(stakes))
    IN  IF total = BigZero THEN <<>>
        ELSE [i \in 1..Len(stakes) |-> UintDivisor(434, total)]

\* updateSpecialBlock: the epoch remainder, Rank at an epoch block, the year remainder
updateSpecialBlockDivisors(config, blockNumber, stakes) ==
    <<UintDivisor(466, config.Epoch)>>
    \o (IF IsMultipleOf(blockNumber, config.Epoch) THEN RankDivisors(stakes) ELSE <<>>)
    \o <<UintDivisor(480, YearLength(config))>>

\* getCoinCofficient with a previous-period amount that is zero or not
getCoinCofficientDivisors(config, coinrewards) ==
    IF coinrewards = 0 THEN <<>>
    ELSE <<Int64Divisor(549, BigOfNat(base)), Int64Divisor(551, BigOfNat(ratioPerYear)),
           Int64Divisor(554, config.Epoch), UintDivisor(557, BigOfNat(coinrewards))>>

getStorageCoefficientDivisors(config, storagerewards) ==
    IF storagerewards = 0 THEN <<>>
    ELSE <<Int64Divisor(568, BigOfNat(base)), Int64Divisor(570, BigOfNat(ratioPerYear)),
           Int64Divisor(573, config.Epoch), UintDivisor(576, BigOfNat(storagerewards))>>

accumulateInterestRewardsDivisors(config, preCoinRewards) ==
    <<UintDivisor(585, YearLength(config))>>
    \o getCoinCofficientDivisors(config, preCoinRewards)
    \o <<Int64Divisor(595, BigOfNat(base)), Int64Divisor(597, BigOfNat(epochPerYear)),
         Int64Divisor(600, BigOfNat(base)), Int64Divisor(603, BigOfNat(base)),
         Int64Divisor(606, config.Epoch)>>

accumulateStorageRewardsDivisors(config, preStorageRewards, contributes) ==
    LET total == Wrap64(BigSum(contributes))
    IN  <<UintDivisor(619, YearLength(config))>>
        \o getStorageCoefficientDivisors(config, preStorageRewards)
        \o <<Int64Divisor(629, BigOfNat(base)), Int64Divisor(631, BigOfNat(epochPerYear)),
             Int64Divisor(634, BigOfNat(base)), Int64Divisor(637, config.Epoch)>>
        \o (IF total = BigZero THEN <<>>
            ELSE [i \in 1..Len(contributes) |-> Int64Divisor(654, total)])

\* Finalize: the divisions of a call, in the order it evaluates them
FinalizeDivisors(config, blockNumber, stakes, pre, contributes, snapshotOk) ==
    updateSpecialBlockDivisors(config, blockNumber, stakes)
    \o (IF snapshotOk
        THEN accumulateInterestRewardsDivisors(config, pre.coin)
             \o accumulateStorageRewardsDivisors(config, pre.storage, contributes)
        ELSE <<>>)

RECURSIVE Executed(_)
\* the divisions a call gets to: a zero divisor ends it with a panic
Executed(divisors) ==
    IF divisors = <<>> THEN <<>>
    ELSE IF IsZeroDivisor(Head(divisors)) THEN <<Head(divisors)>>
         ELSE <<Head(divisors)>> \o Executed(Tail(divisors))

\* the stakes of an epoch's candidates, and the heft of the two candidates
DivideStakes == {<<>>, <<BigZero, BigZero>>, <<BigOfNat(60), BigOfNat(30)>>,
                 <<HalfRange, HalfRange>>, <<MaxUint64, BigOfNat(2)>>}
DivideContributes == {<<BigZero, BigZero>>, <<BigOfNat(1), BigOfNat(2)>>,
                      <<HalfRange, HalfRange>>, <<MaxUint64, BigOfNat(2)>>,
                      <<HalfRange, BigOfNat(1)>>}
\* the previous epoch's coin and storage amounts
DividePre == [coin : {0, 5}, storage : {0, 7}]

FinalizeDivide(blockNumber, stakes, pre, contributes, snapshotOk) ==
    /\ st # Idle
    /\ st.op = "Divide"
    /\ \E divisors \in {Executed(FinalizeDivisors(st.config, blockNumber, stakes, pre,
                                                  contributes, snapshotOk))} :
          st' = [st EXCEPT !.last = [number |-> blockNumber,
                                     divisors |-> divisors,
                                     panicked |-> \E i \in 1..Len(divisors) :
                                                     IsZeroDivisor(divisors[i])]]
    /\ UNCHANGED <<recents, db, signer, signFn, vs, cd, prep, sl, clock, vh, sn, rk, sg, lk,
                 mint>>

InitDivide ==
    /\ recents = EmptyCache
    /\ db = EmptyStore
    /\ signer = ZeroAddr
    /\ signFn = NoFn
    /\ vs = Idle
    /\ cd = Idle
    /\ prep = Idle
    /\ sl = Idle
    /\ clock = 0
    /\ vh = Idle
    /\ mint = Idle
    /\ sn = Idle
    /\ rk = Idle
    /\ \E configEpoch \in ConfigEpochs :
          st = [op |-> "Divide", configured |-> configEpoch, config |-> New(configEpoch),
                last |-> NoFinalize]
    /\ sg = Idle
    /\ lk = Idle

NextDivide ==
    \E blockNumber \in 1..MaxDivideBlock, stakes \in DivideStakes, pre \in DividePre,
       contributes \in DivideContributes, snapshotOk \in BOOLEAN :
        FinalizeDivide(blockNumber, stakes, pre, contributes, snapshotOk)

SpecDivide == InitDivide /\ [][NextDivide]_vars

\* C23: the reward engine and Rank never divide or take a remainder by
\* zero: the epoch length, the previous period's paid amount, the total heft
\* and the total stake are non-zero wherever they are a divisor, for every
\* engine built by New, one configured with an epoch length of 0 included.
C23_NoZeroDivisor ==
    (st.op = "Divide" /\ st.last # NoFinalize) =>
        /\ ~st.last.panicked
        /\ \A i \in 1..Len(st.last.divisors) : ~IsZeroDivisor(st.last.divisors[i])

----------------------------------------------------------------------------
(* The signing hash on both sides (SpecSign): Seal signs a header with the  *)
(* engine's key, and ecrecover recovers the signer of the sealed header.    *)

\* the signing step of Seal: the hash handed to signFn, the returned error
\* and the header as Seal leaves it
SealSign(header, addr, fn) ==
    LET out == Sign(fn, addr, sigHash(header))
    IN  [hash |-> sigHash(header), err |-> out.err,
         header |-> IF out.err = "nil" THEN SetHeaderSignature(header, out.sig)
                    ELSE header]

\* the hash ecrecover hands to crypto.Ecrecover
RecoveryHash(header) == sigHash(ResetHeaderSignature(header))

\* signature bytes a header handed to Seal may carry: none, or those of an
\* earlier sealing by a1
CarriedSignatures(h) == {NoSig, BadSig, [key |-> "a1", digest |-> RecoveryHash(h)]}

\* the headers handed to Seal: their payload decodes, with or without an
\* embedded committee list
SealHeaders(n, dt, d) ==
    UNION {{SetHeaderSignature(Unsigned(n, dt, d, TRUE, [CommitteeRank |-> c, Signature |-> NoSig]), sig) :
               sig \in CarriedSignatures(Unsigned(n, dt, d, TRUE, [CommitteeRank |-> c, Signature |-> NoSig]))} :
           c \in {0, AddressLength}}

\* Seal's signing step on a header, then ecrecover on the sealed header and
\* on a copy of it that carries other signature bytes
SealRecover(header, k, other) ==
    /\ sg = Idle
    /\ \E out \in {SealSign(header, k, WalletOf({k}))} :
          sg' = [op |-> "SealRecover", key |-> k, header |-> header,
                 err |-> out.err, hash |-> out.hash, sealed |-> out.header,
                 recoveryHash |-> RecoveryHash(out.header),
                 otherHash |-> RecoveryHash(SetHeaderSignature(out.header, other)),
                 recovered |-> ecrecover(out.header)]
    /\ UNCHANGED <<recents, db, signer, signFn, vs, cd, prep, sl, clock, vh, sn, rk, st, lk,
                 mint>>

InitSign == InitVerify

NextSign ==
    \E n \in 1..MaxNumber, dt \in (-1)..MaxDt, d \in 0..MaxDifficulty, k \in Addr :
    \E header \in SealHeaders(n, dt, d), other \in {BadSig, NoSig} :
        SealRecover(header, k, other)

SpecSign == InitSign /\ [][NextSign]_vars

\* C16: the signing hash does not depend on the signature bytes in the
\* header: recovery hashes the same value for two headers that differ only in
\* the signature, that value is the hash Seal handed to the signing callback,
\* and recovering the signer of a header sealed with key k yields k.
C16_SigHashIndependent ==
    (sg.op = "SealRecover" /\ sg.err = "nil") =>
        /\ sg.otherHash = sg.recoveryHash
        /\ sg.recoveryHash = sg.hash
        /\ sg.recovered.err = "nil"
        /\ sg.recovered.signer = sg.key

----------------------------------------------------------------------------
(* The signer fields and g.lock (SpecLock): one goroutine calls Authorize,  *)
(* others run Seal, Prepare and CalcDifficulty on the same engine.  A read  *)
(* of g.signer that overlaps the write of it is a data race: it may see the *)
(* old address, the new one, or bytes of both.                              *)

\* Authorize calls per behaviour
MaxAuthorize == 2

\* the addresses the node operator authorizes
AuthorizeKeys == {"a1", "a2"}

\* what a read of g.signer can return
ReadSigner ==
    IF lk.auth = "midSigner" THEN {signer, lk.target, Garbage} ELSE {signer}

\* a read of the signer fields by goroutine r of the named field, with or
\* without the read lock
ReadEvent(r, field, locked) ==
    [by |-> r, field |-> field, locked |-> locked, authorize |-> lk.auth]

\* g.lock.Lock(): waits until no reader and no writer holds the lock
AuthorizeLock(a) ==
    /\ lk.auth = "idle"
    /\ lk.readers = 0
    /\ lk.authorized < MaxAuthorize
    /\ lk' = [lk EXCEPT !.auth = "locked", !.target = a, !.authorized = @ + 1]
    /\ UNCHANGED <<recents, db, signer, signFn, vs, cd, prep, sl, clock, vh, sn, rk, st, sg,
                 mint>>

\* g.signer = signer: the write begins
AuthorizeSignerBegin ==
    /\ lk.auth = "locked"
    /\ lk' = [lk EXCEPT !.auth = "midSigner"]
    /\ UNCHANGED <<recents, db, signer, signFn, vs, cd, prep, sl, clock, vh, sn, rk, st, sg,
                 mint>>

\* g.signer = signer: the write is complete
AuthorizeSignerEnd ==
    /\ lk.auth = "midSigner"
    /\ signer' = lk.target
    /\ lk' = [lk EXCEPT !.auth = "signerDone"]
    /\ UNCHANGED <<recents, db, signFn, vs, cd, prep, sl, clock, vh, sn, rk, st, sg,
                 mint>>

\* g.signFn = signFn
AuthorizeSignFn ==
    /\ lk.auth = "signerDone"
    /\ signFn' = WalletOf({lk.target})
    /\ lk' = [lk EXCEPT !.auth = "fnDone"]
    /\ UNCHANGED <<recents, db, signer, vs, cd, prep, sl, clock, vh, sn, rk, st, sg,
                 mint>>

\* the deferred g.lock.Unlock()
AuthorizeUnlock ==
    /\ lk.auth = "fnDone"
    /\ lk' = [lk EXCEPT !.auth = "idle"]
    /\ UNCHANGED <<recents, db, signer, signFn, vs, cd, prep, sl, clock, vh, sn, rk, st, sg,
                 mint>>

\* Seal: g.lock.RLock(), granted while no writer holds the lock
SealRLock ==
    /\ lk.seal.pc = "start"
    /\ lk.auth = "idle"
    /\ lk' = [lk EXCEPT !.seal.pc = "rlocked", !.seal.holds = TRUE, !.readers = @ + 1]
    /\ UNCHANGED <<recents, db, signer, signFn, vs, cd, prep, sl, clock, vh, sn, rk, st, sg,
                 mint>>

\* Seal: signer, signFn := g.signer, g.signFn
SealCopy ==
    /\ lk.seal.pc = "rlocked"
    /\ \E a \in ReadSigner :
          lk' = [lk EXCEPT !.seal.pc = "copied", !.seal.signer = a,
                           !.seal.signFn = signFn,
                           !.reads = @ \cup {ReadEvent("Seal", "signer", lk.seal.holds),
                                             ReadEvent("Seal", "signFn", lk.seal.holds)}]
    /\ UNCHANGED <<recents, db, signer, signFn, vs, cd, prep, sl, clock, vh, sn, rk, st, sg,
                 mint>>

\* Seal: g.lock.RUnlock(), after which the delay begins
SealRUnlock ==
    /\ lk.seal.pc = "copied"
    /\ lk' = [lk EXCEPT !.seal.pc = "delay", !.seal.holds = FALSE, !.readers = @ - 1]
    /\ UNCHANGED <<recents, db, signer, signFn, vs, cd, prep, sl, clock, vh, sn, rk, st, sg,
                 mint>>

\* Seal: the delay is over and signFn is called with the copies
SealSignCall ==
    /\ lk.seal.pc = "delay"
    /\ lk' = [lk EXCEPT !.seal.pc = "signed"]
    /\ UNCHANGED <<recents, db, signer, signFn, vs, cd, prep, sl, clock, vh, sn, rk, st, sg,
                 mint>>

\* Prepare: header.Coinbase = g.signer
PrepareCoinbase ==
    /\ lk.prepare.pc = "start"
    /\ \E a \in ReadSigner :
          lk' = [lk EXCEPT !.prepare.pc = "coinbase", !.prepare.coinbase = a,
                           !.reads = @ \cup {ReadEvent("Prepare", "signer", FALSE)}]
    /\ UNCHANGED <<recents, db, signer, signFn, vs, cd, prep, sl, clock, vh, sn, rk, st, sg,
                 mint>>

\* Prepare: header.Difficulty = CalcDifficulty(snap, g.signer, number)
PrepareDifficulty ==
    /\ lk.prepare.pc = "coinbase"
    /\ \E a \in ReadSigner :
          lk' = [lk EXCEPT !.prepare.pc = "done", !.prepare.rankedAs = a,
                           !.reads = @ \cup {ReadEvent("Prepare", "signer", FALSE)}]
    /\ UNCHANGED <<recents, db, signer, signFn, vs, cd, prep, sl, clock, vh, sn, rk, st, sg,
                 mint>>

\* g.CalcDifficulty: CalcDifficulty(snap, g.signer, blockNumber)
CalcDifficultyRead ==
    /\ lk.calc.pc = "start"
    /\ \E a \in ReadSigner :
          lk' = [lk EXCEPT !.calc.pc = "done", !.calc.rankedAs = a,
                           !.reads = @ \cup {ReadEvent("CalcDifficulty", "signer", FALSE)}]
    /\ UNCHANGED <<recents, db, signer, signFn, vs, cd, prep, sl, clock, vh, sn, rk, st, sg,
                 mint>>

InitLock ==
    /\ recents = EmptyCache
    /\ db = EmptyStore
    /\ signer = ZeroAddr
    /\ signFn = NoFn
    /\ vs = Idle
    /\ cd = Idle
    /\ prep = Idle
    /\ sl = Idle
    /\ clock = 0
    /\ vh = Idle
    /\ mint = Idle
    /\ sn = Idle
    /\ rk = Idle
    /\ st = Idle
    /\ sg = Idle
    /\ lk = [op |-> "lock", auth |-> "idle", target |-> ZeroAddr, authorized |-> 0,
             readers |-> 0, reads |-> {},
             seal |-> [pc |-> "start", holds |-> FALSE, signer |-> ZeroAddr,
                       signFn |-> NoFn],
             prepare |-> [pc |-> "start", coinbase |-> ZeroAddr, rankedAs |-> ZeroAddr],
             calc |-> [pc |-> "start", rankedAs |-> ZeroAddr]]

NextLock ==
    \/ \E a \in AuthorizeKeys : AuthorizeLock(a)
    \/ AuthorizeSignerBegin
    \/ AuthorizeSignerEnd
    \/ AuthorizeSignFn
    \/ AuthorizeUnlock
    \/ SealRLock
    \/ SealCopy
    \/ SealRUnlock
    \/ SealSignCall
    \/ PrepareCoinbase
    \/ PrepareDifficulty
    \/ CalcDifficultyRead

SpecLock == InitLock /\ [][NextLock]_vars

\* C17: every read of the signer fields is made under the read lock, so none
\* runs while an Authorize call holds the write lock; the copy a reader takes
\* pairs the identity and the callback of one Authorize call; and Seal holds
\* no lock once its delay has begun.
C17_LockDiscipline ==
    lk.op = "lock" =>
        /\ \A r \in lk.reads : r.locked /\ r.authorize = "idle"
        /\ lk.seal.pc \in {"copied", "delay", "signed"} =>
              \/ lk.seal.signer = ZeroAddr /\ lk.seal.signFn = NoFn
              \/ lk.seal.signFn = WalletOf({lk.seal.signer})
        /\ lk.seal.pc \in {"delay", "signed"} => ~lk.seal.holds

----------------------------------------------------------------------------
(* A block from Prepare to VerifySeal (SpecMint): a committee member's      *)
(* engine prepares, finalizes and seals the header of block n; another      *)
(* node, holding the same chain and the governing snapshot, verifies it.    *)

\* SetHeaderCommitteeRankList: the embedded list takes 20 bytes per address
SetHeaderCommitteeRankList(header, commiteeRank, proportion) ==
    [header EXCEPT !.Extra =
        [CommitteeRank |-> AddressLength * Len(commiteeRank),
         Signature |-> IF header.Extra = NoExtra THEN NoSig ELSE header.Extra.Signature]]

\* updateSpecialBlock, the header part: at an epoch block the ranked
\* candidates, cut to CommitteeMaxSize, are embedded in the header
updateSpecialBlockHeader(header, sorted) ==
    IF header.Number % Epoch = 0
    THEN LET out == Rank(sorted) IN
         IF Len(sorted) <= CommitteeMaxSize
         THEN SetHeaderCommitteeRankList(header, out.committeeRank, out.proportion)
         ELSE SetHeaderCommitteeRankList(header,
                                         SubSeq(out.committeeRank, 1, CommitteeMaxSize),
                                         SubSeq(out.proportion, 1, CommitteeMaxSize))
    ELSE header

\* state.GetCandidatesInfoInRange of the epoch that ends: no candidate, up
\* to one more than the committee holds, or candidates without stake
MintCandidateLists ==
    {[i \in 1..k |-> [Signer |-> CandidateSigner[i], Stake |-> BigOfNat(10 * i)]] :
        k \in 0..(CommitteeMaxSize + 1)}
    \cup {[i \in 1..2 |-> [Signer |-> CandidateSigner[i], Stake |-> BigZero]]}

\* the members of the committee governing block n
MembersAt(n) == Range(GoverningSnapshot(n).CommitteeRank)

\* the verifying node's g.snapshot: its cache holds the governing snapshot
VerifierSnapshot(n) ==
    snapshot([EmptyCache EXCEPT ![GetTurnOfCommiteeByBlockNumber(n)] = GoverningSnapshot(n)],
             EmptyStore, GetTurnOfCommiteeByBlockNumber(n), TRUE)

\* the node is authorized for member k and takes up block n
MintAuthorize(k, n) ==
    /\ mint # Idle
    /\ mint.phase = "new"
    /\ k \in MembersAt(n)
    /\ signer' = k
    /\ signFn' = WalletOf({k})
    /\ mint' = [mint EXCEPT !.phase = "authorized", !.number = n, !.key = k]
    /\ UNCHANGED <<recents, db, vs, cd, prep, sl, clock, vh, sn, rk, st, sg, lk>>

\* Prepare at local clock parent.Time + dnow
MintPrepare(dnow) ==
    /\ mint # Idle
    /\ mint.phase = "authorized"
    /\ \E storeOk \in BOOLEAN :
          LET n == mint.number
              sres == snapshot(recents, db, GetTurnOfCommiteeByBlockNumber(n), storeOk)
              now == ChainTime(n - 1) + dnow
              out == Prepare(BlankHeader(n, TRUE), signer, now, sres)
          IN  /\ mint' = [mint EXCEPT !.phase = IF out.ret = "nil" THEN "prepared"
                                                 ELSE "failed",
                                      !.header = out.header, !.now = now,
                                      !.err = out.ret]
              /\ recents' = sres.recents
              /\ db' = sres.db
    /\ UNCHANGED <<signer, signFn, vs, cd, prep, sl, clock, vh, sn, rk, st, sg, lk>>

\* Finalize: the header part, then the rewards on the block's ledger
MintFinalize(candidateInfos, contributes) ==
    /\ mint # Idle
    /\ mint.phase = "prepared"
    /\ \E sorted \in SortOutcomes(candidateInfos), storeOk \in BOOLEAN :
          LET n == mint.number
              sres == snapshot(recents, db, GetTurnOfCommiteeByBlockNumber(n), storeOk)
          IN  \E out \in {Finalize(mint.ledger, mint.header.Coinbase, Candidates,
                                   contributes, n, sres)},
                 header \in {updateSpecialBlockHeader(mint.header, sorted)} :
                /\ mint' = [mint EXCEPT !.phase = IF out.ret = "nil" THEN "finalized"
                                                   ELSE "failed",
                                        !.header = header,
                                        !.candidates = Len(candidateInfos),
                                        !.ledger = out.ledger, !.err = out.ret]
                /\ recents' = sres.recents
                /\ db' = sres.db
    /\ UNCHANGED <<signer, signFn, vs, cd, prep, sl, clock, vh, sn, rk, st, sg, lk>>

\* Seal, not cancelled: the delay passes and the header is signed
MintSeal(jitter) ==
    /\ mint # Idle
    /\ mint.phase = "finalized"
    /\ \E storeOk \in BOOLEAN :
          LET n == mint.number
              sres == snapshot(recents, db, GetTurnOfCommiteeByBlockNumber(n), storeOk)
          IN  \E out \in {SealSign(mint.header, signer, signFn)} :
                /\ mint' = IF sres.err # "nil"
                           THEN [mint EXCEPT !.phase = "failed", !.err = sres.err]
                           ELSE [mint EXCEPT
                                    !.phase = IF out.err = "nil" THEN "sealed" ELSE "failed",
                                    !.delay = SealDelay(sres.snap, mint.header, jitter),
                                    !.header = out.header, !.err = out.err]
                /\ recents' = sres.recents
                /\ db' = sres.db
    /\ UNCHANGED <<signer, signFn, vs, cd, prep, sl, clock, vh, sn, rk, st, sg, lk>>

\* VerifySeal on another node, its clock at header.Time + late
MintVerifySeal(late) ==
    /\ mint # Idle
    /\ mint.phase = "sealed"
    /\ mint' = [mint EXCEPT !.phase = "verified",
                            !.verifiedAt = mint.header.Time + late,
                            !.ret = VerifySeal(mint.header, mint.header.Time + late,
                                               VerifierSnapshot(mint.number))]
    /\ UNCHANGED <<recents, db, signer, signFn, vs, cd, prep, sl, clock, vh, sn, rk, st, sg,
                 lk>>

InitMint ==
    /\ recents = EmptyCache
    /\ db = EmptyStore
    /\ signer = ZeroAddr
    /\ signFn = NoFn
    /\ vs = Idle
    /\ cd = Idle
    /\ prep = Idle
    /\ sl = Idle
    /\ clock = 0
    /\ vh = Idle
    /\ sn = Idle
    /\ rk = Idle
    /\ st = Idle
    /\ sg = Idle
    /\ lk = Idle
    /\ mint = [op |-> "Mint", phase |-> "new", number |-> 0, key |-> ZeroAddr,
               header |-> BlankHeader(0, FALSE), now |-> 0, candidates |-> 0,
               ledger |-> FreshLedger(9600, FALSE, <<>>), delay |-> 0, err |-> "nil",
               verifiedAt |-> 0, ret |-> "none"]

NextMint ==
    \/ \E k \in Addr, n \in 1..MaxNumber : MintAuthorize(k, n)
    \/ \E dnow \in (-1)..MaxDt : MintPrepare(dnow)
    \/ \E candidateInfos \in MintCandidateLists, contributes \in HeftLists :
          MintFinalize(candidateInfos, contributes)
    \/ \E jitter \in 0..(wiggleTime - 1) : MintSeal(jitter)
    \/ \E late \in 0..1 : MintVerifySeal(late)

SpecMint == InitMint /\ [][NextMint]_vars

\* C25: a header for block n > 0 that a committee member produces with this
\* engine (Prepare, Finalize, an uncancelled Seal, the parent present, no
\* Authorize in between) is accepted by VerifySeal on any node that holds
\* the same chain and committee snapshot and whose clock has reached the
\* header's timestamp: for members in turn and out of turn, every local
\* clock at Prepare, and epoch blocks with any candidate set.
C25_ProducedAccepted ==
    (mint.op = "Mint" /\ mint.phase = "verified") => mint.ret = "nil"

====
